---- MODULE Spec2Model ----
(***************************************************************************)
(* A model of the 6502 emulator core (6502_emulator_core): the Cpu value,  *)
(* the BasicMemory it executes from, and Cpu::execute_single / Cpu::reset. *)
(*                                                                         *)
(* Integers keep their Rust width.  An arithmetic overflow of a u8/u16/u32 *)
(* `+`, `-`, `+=` or `-=` panics when the crate is built with overflow     *)
(* checks (the dev/test profile) and wraps when it is built without them   *)
(* (the release profile); the variable overflow_checks records which build *)
(* is running.                                                             *)
(***************************************************************************)
EXTENDS Integers, Sequences, FiniteSets, TLC

\* ------------------------------------------------------------------------
\* Integer widths
\* ------------------------------------------------------------------------
U8 == 256
U16 == 65536
I16_MAX == 32767
I16_MIN == 0 - 32768

MAX_MEMORY == 65536
NEGATIVE_BIT == 128
IRQ_INTERRUPT_VECTOR == 65534
STACK_BASE == 256
RESET_PC == 65532
RESET_SP == 255

\* ------------------------------------------------------------------------
\* Bitwise operators of Rust (&, |, ^, !, <<, >>) on unsigned integers
\* ------------------------------------------------------------------------
RECURSIVE BitAnd(_, _)
BitAnd(a, b) ==
    IF a = 0 \/ b = 0 THEN 0
    ELSE (a % 2) * (b % 2) + 2 * BitAnd(a \div 2, b \div 2)

RECURSIVE BitOr(_, _)
BitOr(a, b) ==
    IF a = 0 THEN b
    ELSE IF b = 0 THEN a
    ELSE (IF a % 2 = 1 \/ b % 2 = 1 THEN 1 ELSE 0) + 2 * BitOr(a \div 2, b \div 2)

RECURSIVE BitXor(_, _)
BitXor(a, b) ==
    IF a = 0 THEN b
    ELSE IF b = 0 THEN a
    ELSE ((a + b) % 2) + 2 * BitXor(a \div 2, b \div 2)

\* !value on a u8
BitNot8(a) == BitXor(a, U8 - 1)

\* value >> n
Shr(a, n) == a \div (2 ^ n)

\* value << n on a u8: the bits shifted out are dropped
Shl8(a, n) == (a * (2 ^ n)) % U8

\* value << n on a u16
Shl16(a, n) == (a * (2 ^ n)) % U16

\* `x as i16` for a u16 x, and `x as u16` for an i16 x
AsI16(x) == IF x > I16_MAX THEN x - U16 ELSE x
AsU16(x) == (x + U16) % U16

\* `b as i8 as i16` for a u8 b
AsI8(b) == IF b >= NEGATIVE_BIT THEN b - U8 ELSE b

\* A u32 is kept as its two 16-bit halves, value = hi * 2^16 + lo, so that
\* the whole range 0 .. 2^32 - 1 is representable.
U32Of(n) == [hi |-> n \div U16, lo |-> n % U16]

\* c < n for a u32 c and a small n (n < 2^16)
U32Less(c, n) == c.hi = 0 /\ c.lo < n

\* c - n modulo 2^32 for a u32 c and a small n (n < 2^16)
U32WrappingSub(c, n) ==
    IF c.lo >= n THEN [c EXCEPT !.lo = c.lo - n]
    ELSE [hi |-> (c.hi + U16 - 1) % U16, lo |-> c.lo + U16 - n]

\* Wrapping(a) + Wrapping(b) and Wrapping(a) - Wrapping(b) on u8
WrappingAdd8(a, b) == (a + b) % U8
WrappingSub8(a, b) == (a - b + U8) % U8

\* ------------------------------------------------------------------------
\* Opcodes (ops.rs)
\* ------------------------------------------------------------------------
LDA_IMMEDIATE == 169
LDA_ZERO_PAGE == 165
LDA_ZERO_PAGE_X == 181
LDA_ABSOLUTE == 173
LDA_ABSOLUTE_X == 189
LDA_ABSOLUTE_Y == 185
LDA_INDIRECT_X == 161
LDA_INDIRECT_Y == 177
LDX_IMMEDIATE == 162
LDX_ZERO_PAGE == 166
LDX_ZERO_PAGE_Y == 182
LDX_ABSOLUTE == 174
LDX_ABSOLUTE_Y == 190
LDY_IMMEDIATE == 160
LDY_ZERO_PAGE == 164
LDY_ZERO_PAGE_X == 180
LDY_ABSOLUTE == 172
LDY_ABSOLUTE_X == 188
STA_ZERO_PAGE == 133
STA_ZERO_PAGE_X == 149
STA_ABSOLUTE == 141
STA_ABSOLUTE_X == 157
STA_ABSOLUTE_Y == 153
STA_INDIRECT_X == 129
STA_INDIRECT_Y == 145
STX_ZERO_PAGE == 134
STX_ZERO_PAGE_Y == 150
STX_ABSOLUTE == 142
STY_ZERO_PAGE == 132
STY_ZERO_PAGE_X == 148
STY_ABSOLUTE == 140
TAX_IMPLIED == 170
TAY_IMPLIED == 168
TXA_IMPLIED == 138
TYA_IMPLIED == 152
TSX_IMPLIED == 186
TXS_IMPLIED == 154
PHA_IMPLIED == 72
PHP_IMPLIED == 8
PLA_IMPLIED == 104
PLP_IMPLIED == 40
AND_IMMEDIATE == 41
AND_ZERO_PAGE == 37
AND_ZERO_PAGE_X == 53
AND_ABSOLUTE == 45
AND_ABSOLUTE_X == 61
AND_ABSOLUTE_Y == 57
AND_INDIRECT_X == 33
AND_INDIRECT_Y == 49
EOR_IMMEDIATE == 73
EOR_ZERO_PAGE == 69
EOR_ZERO_PAGE_X == 85
EOR_ABSOLUTE == 77
EOR_ABSOLUTE_X == 93
EOR_ABSOLUTE_Y == 89
EOR_INDIRECT_X == 65
EOR_INDIRECT_Y == 81
ORA_IMMEDIATE == 9
ORA_ZERO_PAGE == 5
ORA_ZERO_PAGE_X == 21
ORA_ABSOLUTE == 13
ORA_ABSOLUTE_X == 29
ORA_ABSOLUTE_Y == 25
ORA_INDIRECT_X == 1
ORA_INDIRECT_Y == 17
BIT_ZERO_PAGE == 36
BIT_ABSOLUTE == 44
ADC_IMMEDIATE == 105
ADC_ZERO_PAGE == 101
ADC_ZERO_PAGE_X == 117
ADC_ABSOLUTE == 109
ADC_ABSOLUTE_X == 125
ADC_ABSOLUTE_Y == 121
ADC_INDIRECT_X == 97
ADC_INDIRECT_Y == 113
SBC_IMMEDIATE == 233
SBC_ZERO_PAGE == 229
SBC_ZERO_PAGE_X == 245
SBC_ABSOLUTE == 237
SBC_ABSOLUTE_X == 253
SBC_ABSOLUTE_Y == 249
SBC_INDIRECT_X == 225
SBC_INDIRECT_Y == 241
CMP_IMMEDIATE == 201
CMP_ZERO_PAGE == 197
CMP_ZERO_PAGE_X == 213
CMP_ABSOLUTE == 205
CMP_ABSOLUTE_X == 221
CMP_ABSOLUTE_Y == 217
CMP_INDIRECT_X == 193
CMP_INDIRECT_Y == 209
CPX_IMMEDIATE == 224
CPX_ZERO_PAGE == 228
CPX_ABSOLUTE == 236
CPY_IMMEDIATE == 192
CPY_ZERO_PAGE == 196
CPY_ABSOLUTE == 204
INC_ZERO_PAGE == 230
INC_ZERO_PAGE_X == 246
INC_ABSOLUTE == 238
INC_ABSOLUTE_X == 254
INX_IMPLIED == 232
INY_IMPLIED == 200
DEC_ZERO_PAGE == 198
DEC_ZERO_PAGE_X == 214
DEC_ABSOLUTE == 206
DEC_ABSOLUTE_X == 222
DEX_IMPLIED == 202
DEY_IMPLIED == 136
ASL_ACCUMULATOR == 10
ASL_ZERO_PAGE == 6
ASL_ZERO_PAGE_X == 22
ASL_ABSOLUTE == 14
ASL_ABSOLUTE_X == 30
LSR_ACCUMULATOR == 74
LSR_ZERO_PAGE == 70
LSR_ZERO_PAGE_X == 86
LSR_ABSOLUTE == 78
LSR_ABSOLUTE_X == 94
ROL_ACCUMULATOR == 42
ROL_ZERO_PAGE == 38
ROL_ZERO_PAGE_X == 54
ROL_ABSOLUTE == 46
ROL_ABSOLUTE_X == 62
ROR_ACCUMULATOR == 106
ROR_ZERO_PAGE == 102
ROR_ZERO_PAGE_X == 118
ROR_ABSOLUTE == 110
ROR_ABSOLUTE_X == 126
JMP_ABSOLUTE == 76
JMP_INDIRECT == 108
JSR_ABSOLUTE == 32
RTS_IMPLIED == 96
BCC_RELATIVE == 144
BCS_RELATIVE == 176
BEQ_RELATIVE == 240
BMI_RELATIVE == 48
BNE_RELATIVE == 208
BPL_RELATIVE == 16
BVC_RELATIVE == 80
BVS_RELATIVE == 112
\* The opcode constants of the flag and system instructions are used by
\* cpu.rs but their definitions are not part of the available ops.rs; they
\* carry the values of the 6502 instruction set.
CLC_IMPLIED == 24
CLD_IMPLIED == 216
CLI_IMPLIED == 88
CLV_IMPLIED == 184
SEC_IMPLIED == 56
SED_IMPLIED == 248
SEI_IMPLIED == 120
BRK_IMPLIED == 0
NOP_IMPLIED == 234
RTI_IMPLIED == 64

\* ------------------------------------------------------------------------
\* CpuStatusFlags (bitflags over u8)
\* ------------------------------------------------------------------------
CARRY == 1
ZERO == 2
IRQ_DISABLE == 4
DECIMAL_MODE == 8
BREAK_COMMAND == 16
OVERFLOW == 64
NEGATIVE == 128

\* CpuStatusFlags::all().bits(): the union of the seven declared flags
FlagsAll == CARRY + ZERO + IRQ_DISABLE + DECIMAL_MODE + BREAK_COMMAND + OVERFLOW + NEGATIVE

\* CpuStatusFlags::empty(), the Default of CpuStatusFlags
FlagsDefault == 0

\* flags.set(flag, value)
FlagsSet(bits, flag, value) ==
    IF value THEN BitOr(bits, flag) ELSE BitAnd(bits, BitNot8(flag))

\* flags.intersects(flag)
FlagsIntersects(bits, flag) == BitAnd(bits, flag) # 0

\* from_bits_unchecked: the byte as it is
FromBitsUnchecked(byte) == byte

\* CpuStatusFlags::from_bits_truncate(byte)
FromBitsTruncate(byte) == BitAnd(byte, FlagsAll)

\* ------------------------------------------------------------------------
\* BasicMemory: 64 KiB, zero-filled by default.  The model keeps the bytes
\* that were written; every other byte reads as the default 0.
\* ------------------------------------------------------------------------
MemoryDefault == << >>

MemoryRead(data, address) ==
    IF address \in DOMAIN data THEN data[address] ELSE 0

MemoryWrite(data, address, value) ==
    [x \in (DOMAIN data) \cup {address} |-> IF x = address THEN value ELSE data[x]]

\* ------------------------------------------------------------------------
\* Cpu and OperatingMode
\* ------------------------------------------------------------------------
OperatingMode == {"Mos", "Wdc"}

Register == {"A", "X", "Y", "S"}

\* impl Default for Cpu
CpuDefault ==
    [program_counter |-> RESET_PC,
     stack_pointer |-> RESET_SP,
     register_accumulator |-> 0,
     register_x |-> 0,
     register_y |-> 0,
     flags |-> FlagsDefault,
     mode |-> "Wdc"]

\* Cpu::with_mode
with_mode(mode) == [CpuDefault EXCEPT !.mode = mode]

\* ------------------------------------------------------------------------
\* One call of execute_single works on a machine record m:
\*   cpu, memory   the two values the call borrows mutably
\*   cycles        the local u32 `cycles`
\*   oc            whether the build checks arithmetic overflow
\*   panicked      the call has panicked; nothing after the panic runs
\*   ret           the value returned by the helper that ran last
\*   bus           the memory accesses made so far, in order
\* ------------------------------------------------------------------------
Machine(cpu, memory, cycles, oc) ==
    [cpu |-> cpu, memory |-> memory, cycles |-> U32Of(cycles), oc |-> oc,
     panicked |-> FALSE, ret |-> 0, bus |-> << >>]

Panic(m) == [m EXCEPT !.panicked = TRUE]

\* the rest of a function body: it runs unless the call has panicked
Then(m, F(_)) == IF m.panicked THEN m ELSE F(m)

\* `*cycles -= n` on the u32 budget
cycles_sub(m, n) ==
    IF m.panicked THEN m
    ELSE IF U32Less(m.cycles, n) /\ m.oc THEN Panic(m)
    ELSE [m EXCEPT !.cycles = U32WrappingSub(m.cycles, n)]

\* memory.read(address) behind the dyn Memory interface
memory_read(m, address) ==
    IF m.panicked THEN m
    ELSE IF address > MAX_MEMORY THEN Panic(m)
    ELSE [m EXCEPT !.ret = MemoryRead(m.memory, address),
                   !.bus = Append(m.bus, [rw |-> "r", address |-> address])]

\* memory.write(address, value) behind the dyn Memory interface
memory_write(m, address, value) ==
    IF m.panicked THEN m
    ELSE IF address > MAX_MEMORY THEN Panic(m)
    ELSE [m EXCEPT !.memory = MemoryWrite(m.memory, address, value),
                   !.bus = Append(m.bus, [rw |-> "w", address |-> address])]

\* fetch_byte without `self.program_counter += 1`
fetch_byte_no_increment(m) ==
    Then(memory_read(m, m.cpu.program_counter), LAMBDA r : cycles_sub(r, 1))

\* Cpu::fetch_byte: read at the program counter, program_counter += 1,
\* *cycles -= 1
fetch_byte(m) ==
    Then(memory_read(m, m.cpu.program_counter), LAMBDA r :
        IF r.cpu.program_counter + 1 >= U16 /\ r.oc THEN Panic(r)
        ELSE cycles_sub([r EXCEPT !.cpu.program_counter = (r.cpu.program_counter + 1) % U16], 1))

\* Cpu::read_byte
read_byte(m, address) ==
    IF m.panicked THEN m
    ELSE IF address > MAX_MEMORY THEN Panic(m)
    ELSE cycles_sub(memory_read(m, address), 1)

\* Cpu::write_byte
write_byte(m, address, byte) ==
    IF m.panicked THEN m
    ELSE IF address > MAX_MEMORY THEN Panic(m)
    ELSE cycles_sub(memory_write(m, address, byte), 1)

\* Cpu::read_word: reads address and address + 1 (a u16 sum)
read_word(m, address) ==
    IF m.panicked THEN m
    ELSE IF address + 1 >= U16 /\ m.oc THEN Panic(m)
    ELSE IF (address + 1) % U16 > MAX_MEMORY THEN Panic(m)
    ELSE Then(read_byte(m, address), LAMBDA low :
         Then(read_byte(low, (address + 1) % U16), LAMBDA high :
              [high EXCEPT !.ret = BitOr(Shl16(high.ret, 8), low.ret)]))

\* fetch_word that leaves the program counter at the high byte
fetch_word_short(m) ==
    Then(fetch_byte(m), LAMBDA low :
    Then(fetch_byte_no_increment(low), LAMBDA high :
         [high EXCEPT !.ret = BitOr(Shl16(high.ret, 8), low.ret)]))

\* Cpu::fetch_word
fetch_word(m) ==
    Then(fetch_byte(m), LAMBDA low :
    Then(fetch_byte(low), LAMBDA high :
         [high EXCEPT !.ret = BitOr(Shl16(high.ret, 8), low.ret)]))

\* the register read of set_zero_flag / set_negative_flag / transfer_register
RegisterValue(cpu, register) ==
    CASE register = "A" -> cpu.register_accumulator
      [] register = "X" -> cpu.register_x
      [] register = "Y" -> cpu.register_y
      [] register = "S" -> cpu.stack_pointer

\* Cpu::set_zero_flag
set_zero_flag(cpu, register) ==
    LET v == RegisterValue(cpu, register)
    IN  IF v = 0 THEN [cpu EXCEPT !.flags = FlagsSet(cpu.flags, ZERO, TRUE)]
        ELSE [cpu EXCEPT !.flags = FlagsSet(cpu.flags, ZERO, FALSE)]

\* set_negative_flag that sets the flag and never clears it
set_negative_flag_only_sets(cpu, register) ==
    LET v == RegisterValue(cpu, register)
    IN  IF BitAnd(v, 128) # 0 THEN [cpu EXCEPT !.flags = FlagsSet(cpu.flags, NEGATIVE, TRUE)]
        ELSE cpu

\* Cpu::set_negative_flag
set_negative_flag(cpu, register) ==
    LET v == RegisterValue(cpu, register)
    IN  IF BitAnd(v, 128) # 0 THEN [cpu EXCEPT !.flags = FlagsSet(cpu.flags, NEGATIVE, TRUE)]
        ELSE [cpu EXCEPT !.flags = FlagsSet(cpu.flags, NEGATIVE, FALSE)]

\* the store of Cpu::set_register
RegisterStore(cpu, register, byte) ==
    CASE register = "A" -> [cpu EXCEPT !.register_accumulator = byte]
      [] register = "X" -> [cpu EXCEPT !.register_x = byte]
      [] register = "Y" -> [cpu EXCEPT !.register_y = byte]
      [] register = "S" -> [cpu EXCEPT !.stack_pointer = byte]

\* Cpu::set_register
set_register(m, register, byte) ==
    IF m.panicked THEN m
    ELSE [m EXCEPT !.cpu = set_negative_flag(
                               set_zero_flag(RegisterStore(m.cpu, register, byte), register),
                               register)]

\* Cpu::get_register: only A, X and Y are supported
get_register(m, register) ==
    IF m.panicked THEN m
    ELSE IF register = "S" THEN Panic(m)
    ELSE [m EXCEPT !.ret = RegisterValue(m.cpu, register)]

\* load_register that writes the byte back where it read it
load_register_writes_back(m, register, address) ==
    Then(read_byte(m, address), LAMBDA r :
         set_register(memory_write(r, address, r.ret), register, r.ret))

\* Cpu::load_register
load_register(m, register, address) ==
    Then(read_byte(m, address), LAMBDA r : set_register(r, register, r.ret))

\* Cpu::transfer_register
transfer_register(m, source, dest) ==
    IF m.panicked THEN m
    ELSE cycles_sub(set_register(m, dest, RegisterValue(m.cpu, source)), 1)

\* stack_push with a stack pointer that stops at 0xFF
stack_push_saturating(m, value) ==
    Then(write_byte(m, STACK_BASE + m.cpu.stack_pointer, value), LAMBDA w :
         [w EXCEPT !.cpu.stack_pointer =
             IF w.cpu.stack_pointer = U8 - 1 THEN U8 - 1 ELSE w.cpu.stack_pointer + 1])

\* Cpu::stack_push
stack_push(m, value) ==
    Then(write_byte(m, STACK_BASE + m.cpu.stack_pointer, value), LAMBDA w :
         [w EXCEPT !.cpu.stack_pointer = WrappingAdd8(w.cpu.stack_pointer, 1)])

\* stack_pop that reads at the stack pointer and decrements it afterwards
stack_pop_reads_first(m) ==
    Then(read_byte(m, STACK_BASE + m.cpu.stack_pointer), LAMBDA r :
         [r EXCEPT !.cpu.stack_pointer = WrappingSub8(r.cpu.stack_pointer, 1)])

\* stack_pop with a stack pointer that stops at 0x00
stack_pop_saturating(m) ==
    IF m.panicked THEN m
    ELSE LET sp == IF m.cpu.stack_pointer = 0 THEN 0 ELSE m.cpu.stack_pointer - 1
         IN  read_byte([m EXCEPT !.cpu.stack_pointer = sp], STACK_BASE + sp)

\* stack_pop that subtracts from the 16-bit address instead of the stack
\* pointer byte
stack_pop_borrows(m) ==
    IF m.panicked THEN m
    ELSE read_byte([m EXCEPT !.cpu.stack_pointer = WrappingSub8(m.cpu.stack_pointer, 1)],
                   STACK_BASE + m.cpu.stack_pointer - 1)

\* Cpu::stack_pop
stack_pop(m) ==
    IF m.panicked THEN m
    ELSE LET sp == WrappingSub8(m.cpu.stack_pointer, 1)
         IN  read_byte([m EXCEPT !.cpu.stack_pointer = sp], STACK_BASE + sp)

\* Cpu::flag_as_bit.  In Rust `>>` binds tighter than `&`, so
\* `bits & 0b0000_0010 >> 1` is `bits & (0b0000_0010 >> 1)`.
flag_as_bit(cpu, flag) ==
    LET bits == cpu.flags
    IN  CASE flag = CARRY -> BitAnd(bits, 1)
          [] flag = ZERO -> BitAnd(bits, Shr(2, 1))
          [] flag = IRQ_DISABLE -> BitAnd(bits, Shr(4, 2))
          [] flag = DECIMAL_MODE -> BitAnd(bits, Shr(8, 3))
          [] flag = BREAK_COMMAND -> BitAnd(bits, Shr(16, 4))
          [] flag = OVERFLOW -> BitAnd(bits, Shr(64, 6))
          [] flag = NEGATIVE -> BitAnd(bits, Shr(128, 7))

\* self.flags.set(flag, value) on the machine
flags_set(m, flag, value) ==
    IF m.panicked THEN m
    ELSE [m EXCEPT !.cpu.flags = FlagsSet(m.cpu.flags, flag, value)]

\* the u16 sum `addr + index as u16` of the indexed addressing modes
IndexedSum(m, addr, index) ==
    IF m.panicked THEN m
    ELSE IF addr + index >= U16 /\ m.oc THEN Panic(m)
    ELSE [m EXCEPT !.ret = (addr + index) % U16]

\* `(a ^ b) >> 8 != 0`: the two addresses are on different pages
PageCrossed(a, b) == Shr(BitXor(a, b), 8) # 0

\* addr_zero_page_x with a sum that carries into the next page
addr_zero_page_x_carries(m) ==
    Then(fetch_byte(m), LAMBDA f :
         [cycles_sub(f, 1) EXCEPT !.ret = f.ret + f.cpu.register_x])

\* Cpu::addr_zero_page_x
addr_zero_page_x(m) ==
    Then(fetch_byte(m), LAMBDA f :
         [cycles_sub(f, 1) EXCEPT !.ret = WrappingAdd8(f.ret, f.cpu.register_x)])

\* Cpu::addr_zero_page_y
addr_zero_page_y(m) ==
    Then(fetch_byte(m), LAMBDA f :
         [cycles_sub(f, 1) EXCEPT !.ret = WrappingAdd8(f.ret, f.cpu.register_y)])

\* Cpu::addr_absolute_x
addr_absolute_x(m) ==
    Then(fetch_word(m), LAMBDA f :
    Then(IndexedSum(f, f.ret, f.cpu.register_x), LAMBDA s :
         IF PageCrossed(f.ret, s.ret) THEN cycles_sub(s, 1) ELSE s))

\* Cpu::addr_absolute_x_5
addr_absolute_x_5(m) ==
    Then(fetch_word(m), LAMBDA f : cycles_sub(IndexedSum(f, f.ret, f.cpu.register_x), 1))

\* Cpu::addr_absolute_y
addr_absolute_y(m) ==
    Then(fetch_word(m), LAMBDA f :
    Then(IndexedSum(f, f.ret, f.cpu.register_y), LAMBDA s :
         IF PageCrossed(f.ret, s.ret) THEN cycles_sub(s, 1) ELSE s))

\* Cpu::addr_absolute_y_5
addr_absolute_y_5(m) ==
    Then(fetch_word(m), LAMBDA f : cycles_sub(IndexedSum(f, f.ret, f.cpu.register_y), 1))

\* Cpu::addr_indirect_x
addr_indirect_x(m) ==
    Then(fetch_byte(m), LAMBDA f :
         read_word(cycles_sub(f, 1), WrappingAdd8(f.ret, f.cpu.register_x)))

\* Cpu::addr_indirect_y
addr_indirect_y(m) ==
    Then(fetch_byte(m), LAMBDA f :
    Then(read_word(f, f.ret), LAMBDA w :
    Then(IndexedSum(w, w.ret, w.cpu.register_y), LAMBDA s :
         IF PageCrossed(w.ret, s.ret) THEN cycles_sub(s, 1) ELSE s)))

\* Cpu::addr_indirect_y_5
addr_indirect_y_5(m) ==
    Then(fetch_byte(m), LAMBDA f :
    Then(read_word(f, f.ret), LAMBDA w :
         cycles_sub(IndexedSum(w, w.ret, w.cpu.register_y), 1)))

\* LogicalOperation
LogicalOperation == {"And", "Or", "Xor"}

\* Cpu::logical_operation
logical_operation(m, byte, op) ==
    IF m.panicked THEN m
    ELSE LET result == CASE op = "And" -> BitAnd(m.cpu.register_accumulator, byte)
                         [] op = "Or" -> BitOr(m.cpu.register_accumulator, byte)
                         [] op = "Xor" -> BitXor(m.cpu.register_accumulator, byte)
         IN  set_register(m, "A", result)

\* Cpu::fetch_logical_operation
fetch_logical_operation(m, address, op) ==
    Then(read_byte(m, address), LAMBDA r : logical_operation(r, r.ret, op))

\* add_with_carry that leaves the carry flag out of the sum
add_with_carry_no_carry_in(m, value) ==
    IF m.panicked THEN m
    ELSE LET a_before == m.cpu.register_accumulator
             sum == a_before + value
             m1 == flags_set(m, CARRY, sum > 255)
             a_after == BitAnd(sum, 255)
             sign_bits_eq_before == BitAnd(BitXor(a_before, value), NEGATIVE_BIT) = 0
             sign_bits_ne_after == BitAnd(BitXor(a_after, value), NEGATIVE_BIT) # 0
             m2 == flags_set(m1, OVERFLOW, sign_bits_eq_before /\ sign_bits_ne_after)
         IN  set_register(m2, "A", a_after)

\* Cpu::add_with_carry
add_with_carry(m, value) ==
    IF m.panicked THEN m
    ELSE LET a_before == m.cpu.register_accumulator
             c_before == flag_as_bit(m.cpu, CARRY)
             sum == a_before + value + c_before
             m1 == flags_set(m, CARRY, sum > 255)
             a_after == BitAnd(sum, 255)
             sign_bits_eq_before == BitAnd(BitXor(a_before, value), NEGATIVE_BIT) = 0
             sign_bits_ne_after == BitAnd(BitXor(a_after, value), NEGATIVE_BIT) # 0
             m2 == flags_set(m1, OVERFLOW, sign_bits_eq_before /\ sign_bits_ne_after)
         IN  set_register(m2, "A", a_after)

\* subtract_with_carry that adds the two's complement -value instead of !value
subtract_with_carry_negated(m, value) == add_with_carry(m, (U8 - value) % U8)

\* Cpu::subtract_with_carry
subtract_with_carry(m, value) == add_with_carry(m, BitNot8(value))

\* compare_to_register with Negative set when the register is below the value
compare_to_register_negative_if_below(m, register, value) ==
    IF m.panicked THEN m
    ELSE IF register = "S" THEN Panic(m)
    ELSE LET reg == RegisterValue(m.cpu, register)
             m1 == flags_set(m, CARRY, reg >= value)
             m2 == flags_set(m1, ZERO, reg = value)
         IN  flags_set(m2, NEGATIVE, reg < value)

\* Cpu::compare_to_register
compare_to_register(m, register, value) ==
    IF m.panicked THEN m
    ELSE IF register = "S" THEN Panic(m)
    ELSE LET reg == RegisterValue(m.cpu, register)
             m1 == flags_set(m, CARRY, reg >= value)
             m2 == flags_set(m1, ZERO, reg = value)
         IN  flags_set(m2, NEGATIVE, BitAnd(AsU16(reg - value), 128) # 0)

\* Cpu::bit_test
bit_test(m, address) ==
    Then(read_byte(m, address), LAMBDA r :
         LET result == BitOr(r.ret, r.cpu.register_accumulator)
             m1 == flags_set(r, ZERO, result = 0)
             m2 == flags_set(m1, OVERFLOW, BitAnd(result, Shl8(1, 6)) # 0)
         IN  flags_set(m2, NEGATIVE, BitAnd(result, Shl8(1, 7)) # 0))

\* increment_memory that sets Carry when the byte wraps to 0x00
increment_memory_carries(m, address) ==
    Then(read_byte(m, address), LAMBDA r :
         LET inc == WrappingAdd8(r.ret, 1)
             m1 == cycles_sub(r, 1)
             m2 == flags_set(m1, ZERO, inc = 0)
             m3 == flags_set(m2, NEGATIVE, BitAnd(inc, NEGATIVE_BIT) # 0)
         IN  write_byte(flags_set(m3, CARRY, inc = 0), address, inc))

\* Cpu::increment_memory
increment_memory(m, address) ==
    Then(read_byte(m, address), LAMBDA r :
         LET inc == WrappingAdd8(r.ret, 1)
             m1 == cycles_sub(r, 1)
             m2 == flags_set(m1, ZERO, inc = 0)
             m3 == flags_set(m2, NEGATIVE, BitAnd(inc, NEGATIVE_BIT) # 0)
         IN  write_byte(m3, address, inc))

\* Cpu::decrement_memory
decrement_memory(m, address) ==
    Then(read_byte(m, address), LAMBDA r :
         LET dec == WrappingSub8(r.ret, 1)
             m1 == cycles_sub(r, 1)
             m2 == flags_set(m1, ZERO, dec = 0)
             m3 == flags_set(m2, NEGATIVE, BitAnd(dec, NEGATIVE_BIT) # 0)
         IN  write_byte(m3, address, dec))

\* Cpu::increment_register
increment_register(m, register) ==
    Then(get_register(m, register), LAMBDA g :
         cycles_sub(set_register(g, register, WrappingAdd8(g.ret, 1)), 1))

\* Cpu::decrement_register
decrement_register(m, register) ==
    Then(get_register(m, register), LAMBDA g :
         cycles_sub(set_register(g, register, WrappingSub8(g.ret, 1)), 1))

\* Cpu::arithmetic_shift_left
arithmetic_shift_left(m, address) ==
    Then(read_byte(m, address), LAMBDA r :
         LET carry == BitAnd(r.ret, 128) # 0
             shifted == Shl8(r.ret, 1)
             w == write_byte(r, address, shifted)
             m1 == flags_set(w, CARRY, carry)
             m2 == flags_set(m1, ZERO, shifted = 0)
             m3 == flags_set(m2, NEGATIVE, BitAnd(shifted, NEGATIVE_BIT) # 0)
         IN  cycles_sub(m3, 1))

\* Cpu::logical_shift_right
logical_shift_right(m, address) ==
    Then(read_byte(m, address), LAMBDA r :
         LET carry == BitAnd(r.ret, 1) # 0
             shifted == Shr(r.ret, 1)
             w == write_byte(r, address, shifted)
             m1 == flags_set(w, CARRY, carry)
             m2 == flags_set(m1, ZERO, shifted = 0)
             m3 == flags_set(m2, NEGATIVE, FALSE)
         IN  cycles_sub(m3, 1))

\* Cpu::rotate_left
rotate_left(m, address) ==
    Then(read_byte(m, address), LAMBDA r :
         LET shifted == BitOr(Shl8(r.ret, 1), flag_as_bit(r.cpu, CARRY))
             m1 == flags_set(r, CARRY, BitAnd(r.ret, 128) # 0)
             m2 == flags_set(m1, ZERO, shifted = 0)
             m3 == flags_set(m2, NEGATIVE, BitAnd(shifted, 128) # 0)
         IN  cycles_sub(write_byte(m3, address, shifted), 1))

\* rotate_right that puts the outgoing bit 0 into bit 7
rotate_right_around(m, address) ==
    Then(read_byte(m, address), LAMBDA r :
         LET shifted == BitOr(Shr(r.ret, 1), Shl8(BitAnd(r.ret, 1), 7))
             m1 == flags_set(r, CARRY, BitAnd(r.ret, 1) # 0)
             m2 == flags_set(m1, ZERO, shifted = 0)
             m3 == flags_set(m2, NEGATIVE, BitAnd(shifted, 128) # 0)
         IN  cycles_sub(write_byte(m3, address, shifted), 1))

\* Cpu::rotate_right
rotate_right(m, address) ==
    Then(read_byte(m, address), LAMBDA r :
         LET shifted == BitOr(Shr(r.ret, 1), Shl8(flag_as_bit(r.cpu, CARRY), 7))
             m1 == flags_set(r, CARRY, BitAnd(r.ret, 1) # 0)
             m2 == flags_set(m1, ZERO, shifted = 0)
             m3 == flags_set(m2, NEGATIVE, BitAnd(shifted, 128) # 0)
         IN  cycles_sub(write_byte(m3, address, shifted), 1))

\* Cpu::branch
branch(m, flag, state) ==
    Then(fetch_byte(m), LAMBDA f :
         IF FlagsIntersects(f.cpu.flags, flag) # state THEN f
         ELSE Then(cycles_sub(f, 1), LAMBDA m1 :
              LET sum == AsI16(m1.cpu.program_counter) + AsI8(m1.ret)
              IN  IF (sum > I16_MAX \/ sum < I16_MIN) /\ m1.oc THEN Panic(m1)
                  ELSE Then(IF PageCrossed(AsU16(sum), m1.cpu.program_counter)
                            THEN cycles_sub(m1, 1) ELSE m1, LAMBDA m2 :
                       [m2 EXCEPT !.cpu.program_counter = AsU16(sum)])))

\* the arms of execute_single that load a register from an address
LoadAt(a, register) == load_register(a, register, a.ret)

\* the arms of execute_single that store a register at an address
StoreAt(a, register) == write_byte(a, a.ret, RegisterValue(a.cpu, register))

\* the arms of execute_single that read a byte and add / subtract / compare
AdcAt(a) == Then(read_byte(a, a.ret), LAMBDA r : add_with_carry(r, r.ret))

SbcAt(a) == Then(read_byte(a, a.ret), LAMBDA r : subtract_with_carry(r, r.ret))

CmpAt(a, register) ==
    Then(read_byte(a, a.ret), LAMBDA r : compare_to_register(r, register, r.ret))

\* ASL_ACCUMULATOR arm
asl_accumulator(m) ==
    LET a == m.cpu.register_accumulator
        carry == BitAnd(a, 128) # 0
        shifted == Shl8(a, 1)
        m1 == [m EXCEPT !.cpu.register_accumulator = shifted]
        m2 == flags_set(m1, CARRY, carry)
        m3 == flags_set(m2, ZERO, shifted = 0)
        m4 == flags_set(m3, NEGATIVE, BitAnd(shifted, NEGATIVE_BIT) # 0)
    IN  cycles_sub(m4, 1)

\* LSR_ACCUMULATOR arm
lsr_accumulator(m) ==
    LET a == m.cpu.register_accumulator
        carry == BitAnd(a, 1) # 0
        shifted == Shr(a, 1)
        m1 == [m EXCEPT !.cpu.register_accumulator = shifted]
        m2 == flags_set(m1, CARRY, carry)
        m3 == flags_set(m2, ZERO, shifted = 0)
        m4 == flags_set(m3, NEGATIVE, FALSE)
    IN  cycles_sub(m4, 1)

\* ROL_ACCUMULATOR arm
rol_accumulator(m) ==
    LET a == m.cpu.register_accumulator
        set_carry == BitAnd(a, 128) # 0
        shifted == BitOr(Shl8(a, 1), flag_as_bit(m.cpu, CARRY))
        m1 == [m EXCEPT !.cpu.register_accumulator = shifted]
        m2 == flags_set(m1, CARRY, set_carry)
        m3 == flags_set(m2, ZERO, shifted = 0)
        m4 == flags_set(m3, NEGATIVE, BitAnd(shifted, 128) # 0)
    IN  cycles_sub(m4, 1)

\* ROR_ACCUMULATOR arm
ror_accumulator(m) ==
    LET a == m.cpu.register_accumulator
        set_carry == BitAnd(a, 1) # 0
        shifted == BitOr(Shr(a, 1), Shl8(flag_as_bit(m.cpu, CARRY), 7))
        m1 == [m EXCEPT !.cpu.register_accumulator = shifted]
        m2 == flags_set(m1, CARRY, set_carry)
        m3 == flags_set(m2, ZERO, shifted = 0)
        m4 == flags_set(m3, NEGATIVE, BitAnd(shifted, 128) # 0)
    IN  cycles_sub(m4, 1)

\* JMP_ABSOLUTE arm
jmp_absolute(m) ==
    Then(fetch_word(m), LAMBDA f : [f EXCEPT !.cpu.program_counter = f.ret])

\* JMP_INDIRECT whose Mos mode takes the high byte from the byte after the
\* pointer within the page of the pointer (wrapping only at xxFF)
jmp_indirect_wrap_in_page(m) ==
    Then(fetch_word(m), LAMBDA f :
    Then(IF f.cpu.mode = "Mos"
         THEN Then(read_byte(f, f.ret), LAMBDA low :
              Then(read_byte(low, BitAnd(f.ret, 65280) + ((f.ret + 1) % U8)), LAMBDA high :
                   [high EXCEPT !.ret = BitOr(Shl16(high.ret, 8), low.ret)]))
         ELSE read_word(f, f.ret), LAMBDA e :
         [e EXCEPT !.cpu.program_counter = e.ret]))

\* JMP_INDIRECT arm that reads the word at the pointer in both modes
jmp_indirect_read_word(m) ==
    Then(fetch_word(m), LAMBDA f :
    Then(read_word(f, f.ret), LAMBDA e : [e EXCEPT !.cpu.program_counter = e.ret]))

\* JMP_INDIRECT arm
jmp_indirect(m) ==
    Then(fetch_word(m), LAMBDA f :
    Then(IF f.cpu.mode = "Mos"
         THEN Then(read_byte(f, f.ret), LAMBDA low :
              Then(read_byte(low, BitAnd(f.ret, 65280)), LAMBDA high :
                   [high EXCEPT !.ret = BitOr(Shl16(high.ret, 8), low.ret)]))
         ELSE read_word(f, f.ret), LAMBDA e :
         [e EXCEPT !.cpu.program_counter = e.ret]))

\* JSR_ABSOLUTE arm
jsr_absolute(m) ==
    Then(fetch_word(m), LAMBDA f :
    Then(write_byte(f, STACK_BASE + f.cpu.stack_pointer,
                    BitAnd(f.cpu.program_counter, 255)), LAMBDA w1 :
    Then(write_byte([w1 EXCEPT !.cpu.stack_pointer = WrappingAdd8(w1.cpu.stack_pointer, 1)],
                    STACK_BASE + WrappingAdd8(w1.cpu.stack_pointer, 1),
                    Shr(f.cpu.program_counter, 8)), LAMBDA w2 :
         cycles_sub([w2 EXCEPT !.cpu.stack_pointer = WrappingAdd8(w2.cpu.stack_pointer, 1),
                               !.cpu.program_counter = f.ret], 1))))

\* RTS_IMPLIED arm that pops the low byte first
rts_implied_low_first(m) ==
    Then(stack_pop(m), LAMBDA ret_low :
    Then(stack_pop(ret_low), LAMBDA ret_high :
         cycles_sub([ret_high EXCEPT !.cpu.program_counter =
                        BitOr(Shl16(ret_high.ret, 8), ret_low.ret)], 3)))

\* RTS_IMPLIED arm
rts_implied(m) ==
    Then(stack_pop(m), LAMBDA ret_high :
    Then(stack_pop(ret_high), LAMBDA ret_low :
         cycles_sub([ret_low EXCEPT !.cpu.program_counter =
                        BitOr(Shl16(ret_high.ret, 8), ret_low.ret)], 3)))

\* BRK_IMPLIED arm that sets Break before it pushes the flags
brk_implied_sets_break_first(m) ==
    Then(stack_push(m, BitAnd(m.cpu.program_counter, 255)), LAMBDA p1 :
    Then(stack_push(p1, Shr(m.cpu.program_counter, 8)), LAMBDA p2 :
    Then(read_word(stack_push(p2, BitOr(p2.cpu.flags, BREAK_COMMAND)), IRQ_INTERRUPT_VECTOR),
         LAMBDA w :
         cycles_sub(flags_set([w EXCEPT !.cpu.program_counter = w.ret],
                              BREAK_COMMAND, TRUE), 1))))

\* BRK_IMPLIED arm
brk_implied(m) ==
    Then(stack_push(m, BitAnd(m.cpu.program_counter, 255)), LAMBDA p1 :
    Then(stack_push(p1, Shr(m.cpu.program_counter, 8)), LAMBDA p2 :
    Then(read_word(stack_push(p2, p2.cpu.flags), IRQ_INTERRUPT_VECTOR), LAMBDA w :
         cycles_sub(flags_set([w EXCEPT !.cpu.program_counter = w.ret],
                              BREAK_COMMAND, TRUE), 1))))

\* RTI_IMPLIED arm that leaves Break as popped
rti_implied_keeps_break(m) ==
    Then(stack_pop(m), LAMBDA flag_bits :
    Then(stack_pop([flag_bits EXCEPT !.cpu.flags = FromBitsTruncate(flag_bits.ret)]),
         LAMBDA high_pc :
    Then(stack_pop(high_pc), LAMBDA low_pc :
         cycles_sub([low_pc EXCEPT !.cpu.program_counter =
                        BitOr(Shl16(high_pc.ret, 8), low_pc.ret)], 2))))

\* RTI_IMPLIED arm that pops the low byte of the program counter first
rti_implied_low_first(m) ==
    Then(stack_pop(m), LAMBDA flag_bits :
    Then(stack_pop([flag_bits EXCEPT !.cpu.flags = FromBitsTruncate(flag_bits.ret)]),
         LAMBDA low_pc :
    Then(stack_pop(low_pc), LAMBDA high_pc :
         cycles_sub(flags_set([high_pc EXCEPT !.cpu.program_counter =
                                   BitOr(Shl16(high_pc.ret, 8), low_pc.ret)],
                              BREAK_COMMAND, FALSE), 2))))

\* RTI_IMPLIED arm
rti_implied(m) ==
    Then(stack_pop(m), LAMBDA flag_bits :
    Then(stack_pop([flag_bits EXCEPT !.cpu.flags = FromBitsTruncate(flag_bits.ret)]),
         LAMBDA high_pc :
    Then(stack_pop(high_pc), LAMBDA low_pc :
         cycles_sub(flags_set([low_pc EXCEPT !.cpu.program_counter =
                                   BitOr(Shl16(high_pc.ret, 8), low_pc.ret)],
                              BREAK_COMMAND, FALSE), 2))))

\* PLA_IMPLIED and PLP_IMPLIED arms
pla_implied(m) ==
    Then(stack_pop(m), LAMBDA p : cycles_sub(set_register(p, "A", p.ret), 2))

plp_implied(m) ==
    Then(stack_pop(m), LAMBDA p :
         cycles_sub([p EXCEPT !.cpu.flags = FromBitsTruncate(p.ret)], 2))

\* the `match instruction_byte` of execute_single, on the machine m left by
\* the opcode fetch
Dispatch(m, instruction_byte) ==
    LET op == instruction_byte
        imm == fetch_byte(m)
        zp == fetch_byte(m)
        abs == fetch_word(m)
    IN
    CASE op = LDA_IMMEDIATE -> set_register(imm, "A", imm.ret)
      [] op = LDA_ZERO_PAGE -> LoadAt(zp, "A")
      [] op = LDA_ZERO_PAGE_X -> LoadAt(addr_zero_page_x(m), "A")
      [] op = LDA_ABSOLUTE -> LoadAt(abs, "A")
      [] op = LDA_ABSOLUTE_X -> LoadAt(addr_absolute_x(m), "A")
      [] op = LDA_ABSOLUTE_Y -> LoadAt(addr_absolute_y(m), "A")
      [] op = LDA_INDIRECT_X -> LoadAt(addr_indirect_x(m), "A")
      [] op = LDA_INDIRECT_Y -> LoadAt(addr_indirect_y(m), "A")
      [] op = LDX_IMMEDIATE -> set_register(imm, "X", imm.ret)
      [] op = LDX_ZERO_PAGE -> LoadAt(zp, "X")
      [] op = LDX_ZERO_PAGE_Y -> LoadAt(addr_zero_page_y(m), "X")
      [] op = LDX_ABSOLUTE -> LoadAt(abs, "X")
      [] op = LDX_ABSOLUTE_Y -> LoadAt(addr_absolute_y(m), "X")
      [] op = LDY_IMMEDIATE -> set_register(imm, "Y", imm.ret)
      [] op = LDY_ZERO_PAGE -> LoadAt(zp, "Y")
      [] op = LDY_ZERO_PAGE_X -> LoadAt(addr_zero_page_x(m), "Y")
      [] op = LDY_ABSOLUTE -> LoadAt(abs, "Y")
      [] op = LDY_ABSOLUTE_X -> LoadAt(addr_absolute_x(m), "Y")
      [] op = STA_ZERO_PAGE -> StoreAt(zp, "A")
      [] op = STA_ZERO_PAGE_X -> StoreAt(addr_zero_page_x(m), "A")
      [] op = STA_ABSOLUTE -> StoreAt(abs, "A")
      [] op = STA_ABSOLUTE_X -> StoreAt(addr_absolute_x_5(m), "A")
      [] op = STA_ABSOLUTE_Y -> StoreAt(addr_absolute_y_5(m), "A")
      [] op = STA_INDIRECT_X -> StoreAt(addr_indirect_x(m), "A")
      [] op = STA_INDIRECT_Y -> StoreAt(addr_indirect_y_5(m), "A")
      [] op = STX_ZERO_PAGE -> StoreAt(zp, "X")
      [] op = STX_ZERO_PAGE_Y -> StoreAt(addr_zero_page_y(m), "X")
      [] op = STX_ABSOLUTE -> StoreAt(abs, "X")
      [] op = STY_ZERO_PAGE -> StoreAt(zp, "Y")
      [] op = STY_ZERO_PAGE_X -> StoreAt(addr_zero_page_x(m), "Y")
      [] op = STY_ABSOLUTE -> StoreAt(abs, "Y")
      [] op = TAX_IMPLIED -> transfer_register(m, "A", "X")
      [] op = TAY_IMPLIED -> transfer_register(m, "A", "Y")
      [] op = TXA_IMPLIED -> transfer_register(m, "X", "A")
      [] op = TYA_IMPLIED -> transfer_register(m, "Y", "A")
      [] op = TSX_IMPLIED -> transfer_register(m, "S", "X")
      [] op = TXS_IMPLIED -> transfer_register(m, "X", "S")
      [] op = PHA_IMPLIED -> cycles_sub(stack_push(m, m.cpu.register_accumulator), 1)
      [] op = PHP_IMPLIED -> cycles_sub(stack_push(m, m.cpu.flags), 1)
      [] op = PLA_IMPLIED -> pla_implied(m)
      [] op = PLP_IMPLIED -> plp_implied(m)
      [] op = AND_IMMEDIATE -> logical_operation(imm, imm.ret, "And")
      [] op = AND_ZERO_PAGE -> fetch_logical_operation(zp, zp.ret, "And")
      [] op = AND_ZERO_PAGE_X ->
            Then(addr_zero_page_x(m), LAMBDA a : fetch_logical_operation(a, a.ret, "And"))
      [] op = AND_ABSOLUTE -> fetch_logical_operation(abs, abs.ret, "And")
      [] op = AND_ABSOLUTE_X ->
            Then(addr_absolute_x(m), LAMBDA a : fetch_logical_operation(a, a.ret, "And"))
      [] op = AND_ABSOLUTE_Y ->
            Then(addr_absolute_y(m), LAMBDA a : fetch_logical_operation(a, a.ret, "And"))
      [] op = AND_INDIRECT_X ->
            Then(addr_indirect_x(m), LAMBDA a : fetch_logical_operation(a, a.ret, "And"))
      [] op = AND_INDIRECT_Y ->
            Then(addr_indirect_y(m), LAMBDA a : fetch_logical_operation(a, a.ret, "And"))
      [] op = EOR_IMMEDIATE -> logical_operation(imm, imm.ret, "Xor")
      [] op = EOR_ZERO_PAGE -> fetch_logical_operation(zp, zp.ret, "Xor")
      [] op = EOR_ZERO_PAGE_X ->
            Then(addr_zero_page_x(m), LAMBDA a : fetch_logical_operation(a, a.ret, "Xor"))
      [] op = EOR_ABSOLUTE -> fetch_logical_operation(abs, abs.ret, "Xor")
      [] op = EOR_ABSOLUTE_X ->
            Then(addr_absolute_x(m), LAMBDA a : fetch_logical_operation(a, a.ret, "Xor"))
      [] op = EOR_ABSOLUTE_Y ->
            Then(addr_absolute_y(m), LAMBDA a : fetch_logical_operation(a, a.ret, "Xor"))
      [] op = EOR_INDIRECT_X ->
            Then(addr_indirect_x(m), LAMBDA a : fetch_logical_operation(a, a.ret, "Xor"))
      [] op = EOR_INDIRECT_Y ->
            Then(addr_indirect_y(m), LAMBDA a : fetch_logical_operation(a, a.ret, "Xor"))
      [] op = ORA_IMMEDIATE -> logical_operation(imm, imm.ret, "Or")
      [] op = ORA_ZERO_PAGE -> fetch_logical_operation(zp, zp.ret, "Or")
      [] op = ORA_ZERO_PAGE_X ->
            Then(addr_zero_page_x(m), LAMBDA a : fetch_logical_operation(a, a.ret, "Or"))
      [] op = ORA_ABSOLUTE -> fetch_logical_operation(abs, abs.ret, "Or")
      [] op = ORA_ABSOLUTE_X ->
            Then(addr_absolute_x(m), LAMBDA a : fetch_logical_operation(a, a.ret, "Or"))
      [] op = ORA_ABSOLUTE_Y ->
            Then(addr_absolute_y(m), LAMBDA a : fetch_logical_operation(a, a.ret, "Or"))
      [] op = ORA_INDIRECT_X ->
            Then(addr_indirect_x(m), LAMBDA a : fetch_logical_operation(a, a.ret, "Or"))
      [] op = ORA_INDIRECT_Y ->
            Then(addr_indirect_y(m), LAMBDA a : fetch_logical_operation(a, a.ret, "Or"))
      [] op = BIT_ZERO_PAGE -> bit_test(zp, zp.ret)
      [] op = BIT_ABSOLUTE -> bit_test(abs, abs.ret)
      [] op = ADC_IMMEDIATE -> add_with_carry(imm, imm.ret)
      [] op = ADC_ZERO_PAGE -> AdcAt(zp)
      [] op = ADC_ZERO_PAGE_X -> AdcAt(addr_zero_page_x(m))
      [] op = ADC_ABSOLUTE -> AdcAt(abs)
      [] op = ADC_ABSOLUTE_X -> AdcAt(addr_absolute_x(m))
      [] op = ADC_ABSOLUTE_Y -> AdcAt(addr_absolute_y(m))
      [] op = ADC_INDIRECT_X -> AdcAt(addr_indirect_x(m))
      [] op = ADC_INDIRECT_Y -> AdcAt(addr_indirect_y(m))
      [] op = SBC_IMMEDIATE -> subtract_with_carry(imm, imm.ret)
      [] op = SBC_ZERO_PAGE -> SbcAt(zp)
      [] op = SBC_ZERO_PAGE_X -> SbcAt(addr_zero_page_x(m))
      [] op = SBC_ABSOLUTE -> SbcAt(abs)
      [] op = SBC_ABSOLUTE_X -> SbcAt(addr_absolute_x(m))
      [] op = SBC_ABSOLUTE_Y -> SbcAt(addr_absolute_y(m))
      [] op = SBC_INDIRECT_X -> SbcAt(addr_indirect_x(m))
      [] op = SBC_INDIRECT_Y -> SbcAt(addr_indirect_y(m))
      [] op = CMP_IMMEDIATE -> compare_to_register(imm, "A", imm.ret)
      [] op = CMP_ZERO_PAGE -> CmpAt(zp, "A")
      [] op = CMP_ZERO_PAGE_X -> CmpAt(addr_zero_page_x(m), "A")
      [] op = CMP_ABSOLUTE -> CmpAt(abs, "A")
      [] op = CMP_ABSOLUTE_X -> CmpAt(addr_absolute_x(m), "A")
      [] op = CMP_ABSOLUTE_Y -> CmpAt(addr_absolute_y(m), "A")
      [] op = CMP_INDIRECT_X -> CmpAt(addr_indirect_x(m), "A")
      [] op = CMP_INDIRECT_Y -> CmpAt(addr_indirect_y(m), "A")
      [] op = CPX_IMMEDIATE -> compare_to_register(imm, "X", imm.ret)
      [] op = CPX_ZERO_PAGE -> CmpAt(zp, "X")
      [] op = CPX_ABSOLUTE -> CmpAt(abs, "X")
      [] op = CPY_IMMEDIATE -> compare_to_register(imm, "Y", imm.ret)
      [] op = CPY_ZERO_PAGE -> CmpAt(zp, "Y")
      [] op = CPY_ABSOLUTE -> CmpAt(abs, "Y")
      [] op = INC_ZERO_PAGE -> increment_memory(zp, zp.ret)
      [] op = INC_ZERO_PAGE_X ->
            Then(addr_zero_page_x(m), LAMBDA a : increment_memory(a, a.ret))
      [] op = INC_ABSOLUTE -> increment_memory(abs, abs.ret)
      [] op = INC_ABSOLUTE_X ->
            Then(addr_absolute_x_5(m), LAMBDA a : increment_memory(a, a.ret))
      [] op = INX_IMPLIED -> increment_register(m, "X")
      [] op = INY_IMPLIED -> increment_register(m, "Y")
      [] op = DEC_ZERO_PAGE -> decrement_memory(zp, zp.ret)
      [] op = DEC_ZERO_PAGE_X ->
            Then(addr_zero_page_x(m), LAMBDA a : decrement_memory(a, a.ret))
      [] op = DEC_ABSOLUTE -> decrement_memory(abs, abs.ret)
      [] op = DEC_ABSOLUTE_X ->
            Then(addr_absolute_x_5(m), LAMBDA a : decrement_memory(a, a.ret))
      [] op = DEX_IMPLIED -> decrement_register(m, "X")
      [] op = DEY_IMPLIED -> decrement_register(m, "Y")
      [] op = ASL_ACCUMULATOR -> asl_accumulator(m)
      [] op = ASL_ZERO_PAGE -> arithmetic_shift_left(zp, zp.ret)
      [] op = ASL_ZERO_PAGE_X ->
            Then(addr_zero_page_x(m), LAMBDA a : arithmetic_shift_left(a, a.ret))
      [] op = ASL_ABSOLUTE -> arithmetic_shift_left(abs, abs.ret)
      [] op = ASL_ABSOLUTE_X ->
            Then(addr_absolute_x_5(m), LAMBDA a : arithmetic_shift_left(a, a.ret))
      [] op = LSR_ACCUMULATOR -> lsr_accumulator(m)
      [] op = LSR_ZERO_PAGE -> logical_shift_right(zp, zp.ret)
      [] op = LSR_ZERO_PAGE_X ->
            Then(addr_zero_page_x(m), LAMBDA a : logical_shift_right(a, a.ret))
      [] op = LSR_ABSOLUTE -> logical_shift_right(abs, abs.ret)
      [] op = LSR_ABSOLUTE_X ->
            Then(addr_absolute_x_5(m), LAMBDA a : logical_shift_right(a, a.ret))
      [] op = ROL_ACCUMULATOR -> rol_accumulator(m)
      [] op = ROL_ZERO_PAGE -> rotate_left(zp, zp.ret)
      [] op = ROL_ZERO_PAGE_X ->
            Then(addr_zero_page_x(m), LAMBDA a : rotate_left(a, a.ret))
      [] op = ROL_ABSOLUTE -> rotate_left(abs, abs.ret)
      [] op = ROL_ABSOLUTE_X ->
            Then(addr_absolute_x_5(m), LAMBDA a : rotate_left(a, a.ret))
      [] op = ROR_ACCUMULATOR -> ror_accumulator(m)
      [] op = ROR_ZERO_PAGE -> rotate_right(zp, zp.ret)
      [] op = ROR_ZERO_PAGE_X ->
            Then(addr_zero_page_x(m), LAMBDA a : rotate_right(a, a.ret))
      [] op = ROR_ABSOLUTE -> rotate_right(abs, abs.ret)
      [] op = ROR_ABSOLUTE_X ->
            Then(addr_absolute_x_5(m), LAMBDA a : rotate_right(a, a.ret))
      [] op = JMP_ABSOLUTE -> jmp_absolute(m)
      [] op = JMP_INDIRECT -> jmp_indirect(m)
      [] op = JSR_ABSOLUTE -> jsr_absolute(m)
      [] op = RTS_IMPLIED -> rts_implied(m)
      [] op = BCS_RELATIVE -> branch(m, CARRY, TRUE)
      [] op = BCC_RELATIVE -> branch(m, CARRY, FALSE)
      [] op = BEQ_RELATIVE -> branch(m, ZERO, TRUE)
      [] op = BNE_RELATIVE -> branch(m, ZERO, FALSE)
      [] op = BMI_RELATIVE -> branch(m, NEGATIVE, TRUE)
      [] op = BPL_RELATIVE -> branch(m, NEGATIVE, FALSE)
      [] op = BVS_RELATIVE -> branch(m, OVERFLOW, TRUE)
      [] op = BVC_RELATIVE -> branch(m, OVERFLOW, FALSE)
      [] op = CLC_IMPLIED -> cycles_sub(flags_set(m, CARRY, FALSE), 1)
      [] op = CLD_IMPLIED -> cycles_sub(flags_set(m, DECIMAL_MODE, FALSE), 1)
      [] op = CLI_IMPLIED -> cycles_sub(flags_set(m, IRQ_DISABLE, FALSE), 1)
      [] op = CLV_IMPLIED -> cycles_sub(flags_set(m, OVERFLOW, FALSE), 1)
      [] op = SEC_IMPLIED -> cycles_sub(flags_set(m, CARRY, TRUE), 1)
      [] op = SED_IMPLIED -> cycles_sub(flags_set(m, DECIMAL_MODE, TRUE), 1)
      [] op = SEI_IMPLIED -> cycles_sub(flags_set(m, IRQ_DISABLE, TRUE), 1)
      [] op = BRK_IMPLIED -> brk_implied(m)
      [] op = NOP_IMPLIED -> cycles_sub(m, 1)
      [] op = RTI_IMPLIED -> rti_implied(m)
      [] OTHER -> m

\* the instruction bytes that have an arm in the match of execute_single
Implemented ==
    {LDA_IMMEDIATE, LDA_ZERO_PAGE, LDA_ZERO_PAGE_X, LDA_ABSOLUTE, LDA_ABSOLUTE_X,
     LDA_ABSOLUTE_Y, LDA_INDIRECT_X, LDA_INDIRECT_Y, LDX_IMMEDIATE, LDX_ZERO_PAGE,
     LDX_ZERO_PAGE_Y, LDX_ABSOLUTE, LDX_ABSOLUTE_Y, LDY_IMMEDIATE, LDY_ZERO_PAGE,
     LDY_ZERO_PAGE_X, LDY_ABSOLUTE, LDY_ABSOLUTE_X, STA_ZERO_PAGE, STA_ZERO_PAGE_X,
     STA_ABSOLUTE, STA_ABSOLUTE_X, STA_ABSOLUTE_Y, STA_INDIRECT_X, STA_INDIRECT_Y,
     STX_ZERO_PAGE, STX_ZERO_PAGE_Y, STX_ABSOLUTE, STY_ZERO_PAGE, STY_ZERO_PAGE_X,
     STY_ABSOLUTE, TAX_IMPLIED, TAY_IMPLIED, TXA_IMPLIED, TYA_IMPLIED, TSX_IMPLIED,
     TXS_IMPLIED, PHA_IMPLIED, PHP_IMPLIED, PLA_IMPLIED, PLP_IMPLIED, AND_IMMEDIATE,
     AND_ZERO_PAGE, AND_ZERO_PAGE_X, AND_ABSOLUTE, AND_ABSOLUTE_X, AND_ABSOLUTE_Y,
     AND_INDIRECT_X, AND_INDIRECT_Y, EOR_IMMEDIATE, EOR_ZERO_PAGE, EOR_ZERO_PAGE_X,
     EOR_ABSOLUTE, EOR_ABSOLUTE_X, EOR_ABSOLUTE_Y, EOR_INDIRECT_X, EOR_INDIRECT_Y,
     ORA_IMMEDIATE, ORA_ZERO_PAGE, ORA_ZERO_PAGE_X, ORA_ABSOLUTE, ORA_ABSOLUTE_X,
     ORA_ABSOLUTE_Y, ORA_INDIRECT_X, ORA_INDIRECT_Y, BIT_ZERO_PAGE, BIT_ABSOLUTE,
     ADC_IMMEDIATE, ADC_ZERO_PAGE, ADC_ZERO_PAGE_X, ADC_ABSOLUTE, ADC_ABSOLUTE_X,
     ADC_ABSOLUTE_Y, ADC_INDIRECT_X, ADC_INDIRECT_Y, SBC_IMMEDIATE, SBC_ZERO_PAGE,
     SBC_ZERO_PAGE_X, SBC_ABSOLUTE, SBC_ABSOLUTE_X, SBC_ABSOLUTE_Y, SBC_INDIRECT_X,
     SBC_INDIRECT_Y, CMP_IMMEDIATE, CMP_ZERO_PAGE, CMP_ZERO_PAGE_X, CMP_ABSOLUTE,
     CMP_ABSOLUTE_X, CMP_ABSOLUTE_Y, CMP_INDIRECT_X, CMP_INDIRECT_Y, CPX_IMMEDIATE,
     CPX_ZERO_PAGE, CPX_ABSOLUTE, CPY_IMMEDIATE, CPY_ZERO_PAGE, CPY_ABSOLUTE,
     INC_ZERO_PAGE, INC_ZERO_PAGE_X, INC_ABSOLUTE, INC_ABSOLUTE_X, INX_IMPLIED,
     INY_IMPLIED, DEC_ZERO_PAGE, DEC_ZERO_PAGE_X, DEC_ABSOLUTE, DEC_ABSOLUTE_X,
     DEX_IMPLIED, DEY_IMPLIED, ASL_ACCUMULATOR, ASL_ZERO_PAGE, ASL_ZERO_PAGE_X,
     ASL_ABSOLUTE, ASL_ABSOLUTE_X, LSR_ACCUMULATOR, LSR_ZERO_PAGE, LSR_ZERO_PAGE_X,
     LSR_ABSOLUTE, LSR_ABSOLUTE_X, ROL_ACCUMULATOR, ROL_ZERO_PAGE, ROL_ZERO_PAGE_X,
     ROL_ABSOLUTE, ROL_ABSOLUTE_X, ROR_ACCUMULATOR, ROR_ZERO_PAGE, ROR_ZERO_PAGE_X,
     ROR_ABSOLUTE, ROR_ABSOLUTE_X, JMP_ABSOLUTE, JMP_INDIRECT, JSR_ABSOLUTE, RTS_IMPLIED,
     BCS_RELATIVE, BCC_RELATIVE, BEQ_RELATIVE, BNE_RELATIVE, BMI_RELATIVE, BPL_RELATIVE,
     BVS_RELATIVE, BVC_RELATIVE, CLC_IMPLIED, CLD_IMPLIED, CLI_IMPLIED, CLV_IMPLIED,
     SEC_IMPLIED, SED_IMPLIED, SEI_IMPLIED, BRK_IMPLIED, NOP_IMPLIED, RTI_IMPLIED}

\* the instruction bytes that fall to the default arm
IllegalOpcodes == (0..(U8 - 1)) \ Implemented

\* execute_single with a default arm that costs a cycle, as NOP does
execute_single_default_arm_costs(cpu, memory, cycles, oc) ==
    Then(fetch_byte(Machine(cpu, memory, cycles, oc)), LAMBDA fetched :
         IF fetched.ret \in IllegalOpcodes THEN cycles_sub(fetched, 1)
         ELSE Dispatch(fetched, fetched.ret))

\* Cpu::execute_single(memory, cycles): the machine when the call returns
\* (its field cycles is the returned value) or panics
execute_single(cpu, memory, cycles, oc) ==
    Then(fetch_byte(Machine(cpu, memory, cycles, oc)), LAMBDA fetched :
         Dispatch(fetched, fetched.ret))

\* reset that restores the program counter, the stack pointer and the flags
\* and keeps the registers
reset_keeps_registers(cpu) ==
    [cpu EXCEPT !.program_counter = RESET_PC, !.stack_pointer = RESET_SP,
                !.flags = FlagsDefault]

\* Cpu::reset
reset(cpu) == CpuDefault

\* ------------------------------------------------------------------------
\* The host: it constructs a Cpu and a memory holding a program, lets the
\* Cpu run the program one execute_single call per instruction, writes more
\* bytes with memory.write, one byte per call, and runs them, and may call
\* cpu.reset and memory.reset at any time.
\* ------------------------------------------------------------------------
VARIABLES
    cpu,              \* the Cpu value
    memory,           \* the BasicMemory the host lends to execute_single
    overflow_checks,  \* the build checks arithmetic overflow (dev profile)
    call,             \* the last call on the Cpu, with the state it started from
    prev,             \* the call before that
    steps,            \* execute_single calls made so far
    len,              \* execute_single calls the host is going to make
    next              \* what the host may write next: the alternatives it chooses from

vars == <<cpu, memory, overflow_checks, call, prev, steps, len, next>>

\* Bounds of the exploration
MaxBudget == 7
ExtraCalls == 0
NumByteSamples == 3

Budgets == {0, 2, MaxBudget}

\* sample bytes: the boundary values and a few values in between
ByteVals == {0, 1, 127, 128, 255} \cup {(k * 37 + 5) % U8 : k \in 1..NumByteSamples}

\* sample status bytes found on the stack by PLP
FlagVals == {0, CARRY, DECIMAL_MODE, CARRY + DECIMAL_MODE, ZERO + OVERFLOW + NEGATIVE, U8 - 1}

Lo(word) == word % U8
Hi(word) == word \div U8

\* memory.write(org + i, bytes[i]) for each byte of a program fragment
Place(data, org, bytes) ==
    LET span == {org + i - 1 : i \in 1..Len(bytes)}
    IN  [x \in (DOMAIN data) \cup span |->
            IF x \in span THEN bytes[x - org + 1] ELSE data[x]]

\* first page after the stack page: where the programs put their code
Org == STACK_BASE + U8

\* a program starts at the reset program counter with a jump to Org
Boot == Place(MemoryDefault, RESET_PC, <<JMP_ABSOLUTE, Lo(Org), Hi(Org)>>)

\* A program: the memory image, the number of instructions to run, the
\* operating mode of the Cpu, and what the host may write once the image
\* has run.
Program(data, n, mode, instructions) ==
    [memory |-> data, len |-> n, mode |-> mode, next |-> instructions]

\* Bytes the host writes with consecutive memory.write calls, one byte per
\* call (code), from the address at on, the number of execute_single calls
\* the host makes for them once they are written (calls), and what it may
\* write after them (then).  The bytes of an Instruction go to the program
\* counter: at = U16, which is no address, stands for the program counter
\* at the time of the first of the writes.  The bytes of a Poke have an
\* address of their own.
Instruction(bytes, n) ==
    [code |-> bytes, calls |-> n, at |-> U16, addressed |-> FALSE, then |-> {}]

Poke(address, bytes, n, instructions) ==
    [code |-> bytes, calls |-> n, at |-> address, addressed |-> TRUE, then |-> instructions]

\* LDA #v at the reset program counter, and then a new operand byte twice
\* over, each run from the reset state (as test::lda_immediate does);
\* or instead of it a byte somewhere else in the memory, or the
\* instruction byte alone
ProgramsLda ==
    {Program(MemoryDefault, 0, md,
             {Poke(4660, <<7>>, 0, {}),
              Poke(RESET_PC, <<LDA_IMMEDIATE>>, 1, {Poke(RESET_PC + 1, <<5>>, 1, {})})}
             \cup {[Instruction(<<LDA_IMMEDIATE, v>>, 1) EXCEPT !.then =
                       {Poke(RESET_PC + 1, <<194>>, 1, {Poke(RESET_PC + 1, <<0>>, 1, {})})}] :
                      v \in 0..(U8 - 1)}) :
        md \in OperatingMode}

\* Instructions that write A, X or Y, in their immediate and implied forms
RegOpsImmediate ==
    {LDA_IMMEDIATE, LDX_IMMEDIATE, LDY_IMMEDIATE, AND_IMMEDIATE, ORA_IMMEDIATE,
     EOR_IMMEDIATE, ADC_IMMEDIATE, SBC_IMMEDIATE}

RegOpsImplied ==
    {TAX_IMPLIED, TAY_IMPLIED, TXA_IMPLIED, TYA_IMPLIED, TSX_IMPLIED, PLA_IMPLIED,
     INX_IMPLIED, INY_IMPLIED, DEX_IMPLIED, DEY_IMPLIED,
     ASL_ACCUMULATOR, LSR_ACCUMULATOR, ROL_ACCUMULATOR, ROR_ACCUMULATOR}

\*   LDX #w; TXS; LDY #~w; LDA #w; PLP
\* with the status byte f where PLP pops it and the byte ~w where a PLA
\* after that pops it: the next instruction runs with A = X = w, Y = ~w and
\* the flags f.
RegImage(w, f) ==
    LET code == Place(Boot, Org, <<LDX_IMMEDIATE, w, TXS_IMPLIED, LDY_IMMEDIATE, U8 - 1 - w,
                                   LDA_IMMEDIATE, w, PLP_IMPLIED>>)
        flags == Place(code, STACK_BASE + WrappingSub8(w, 1), <<f>>)
    IN  Place(flags, STACK_BASE + WrappingSub8(w, 2), <<U8 - 1 - w>>)

RegOpsAbsolute ==
    {LDA_ABSOLUTE, LDX_ABSOLUTE, LDY_ABSOLUTE, AND_ABSOLUTE, ORA_ABSOLUTE,
     EOR_ABSOLUTE, ADC_ABSOLUTE, SBC_ABSOLUTE}

\* the immediate forms with every sample operand, the implied forms, and the
\* absolute forms reading the byte ~w at Org + 4 (the operand of LDY); BIT
\* of the bytes w at Org + 1 and ~w at Org + 4 and of the byte 0 at 0x0040;
\* CMP, CPX and CPY in their immediate and absolute forms; INC, DEC, ASL,
\* LSR, ROL and ROR of the byte w at Org + 1 and of the byte 0 at 0x0040; TXS
RegInstructions ==
    {Instruction(<<op, v>>, 1) : op \in RegOpsImmediate, v \in ByteVals}
    \cup {Instruction(<<op>>, 1) : op \in RegOpsImplied}
    \cup {Instruction(<<op, Lo(Org + 4), Hi(Org + 4)>>, 1) :
              op \in RegOpsAbsolute \cup {BIT_ABSOLUTE}}
    \cup {Instruction(<<BIT_ABSOLUTE, Lo(Org + 1), Hi(Org + 1)>>, 1),
          Instruction(<<BIT_ZERO_PAGE, 64>>, 1)}
    \cup {Instruction(<<op, v>>, 1) :
              op \in {CMP_IMMEDIATE, CPX_IMMEDIATE, CPY_IMMEDIATE}, v \in ByteVals}
    \cup {Instruction(<<op, Lo(Org + 4), Hi(Org + 4)>>, 1) :
              op \in {CMP_ABSOLUTE, CPX_ABSOLUTE, CPY_ABSOLUTE}}
    \cup {Instruction(<<op, Lo(Org + 1), Hi(Org + 1)>>, 1) :
              op \in {INC_ABSOLUTE, DEC_ABSOLUTE, ASL_ABSOLUTE, LSR_ABSOLUTE, ROL_ABSOLUTE,
                       ROR_ABSOLUTE}}
    \cup {Instruction(<<op, 64>>, 1) :
              op \in {INC_ZERO_PAGE, DEC_ZERO_PAGE, ASL_ZERO_PAGE, LSR_ZERO_PAGE, ROL_ZERO_PAGE,
                       ROR_ZERO_PAGE}}
    \cup {Instruction(<<TXS_IMPLIED>>, 1)}

ProgramsReg ==
    {Program(RegImage(w, f), 6, "Wdc", RegInstructions) : w \in ByteVals, f \in FlagVals}

\* Read-class instructions with absolute,X and absolute,Y addressing
ReadOpsAbsoluteX ==
    {LDA_ABSOLUTE_X, LDY_ABSOLUTE_X, AND_ABSOLUTE_X, ORA_ABSOLUTE_X, EOR_ABSOLUTE_X,
     ADC_ABSOLUTE_X, SBC_ABSOLUTE_X, CMP_ABSOLUTE_X}

ReadOpsAbsoluteY ==
    {LDA_ABSOLUTE_Y, LDX_ABSOLUTE_Y, AND_ABSOLUTE_Y, ORA_ABSOLUTE_Y, EOR_ABSOLUTE_Y,
     ADC_ABSOLUTE_Y, SBC_ABSOLUTE_Y, CMP_ABSOLUTE_Y}

\* sample base addresses: 0x0000, 0x00FF, 0x30F0, 0x7FFF, 0xFEFF, 0xFFFF
AddrVals == {0, U8 - 1, 12528, I16_MAX, U16 - U8 - 1, U16 - 1}

\* sample index values: 0x00, 0x01, 0x10, 0xFF
IndexVals == {0, 1, 16, U8 - 1}

\* the instructions that address the zero page indexed by X and by Y
ZeroPageXOps ==
    {LDA_ZERO_PAGE_X, LDY_ZERO_PAGE_X, STA_ZERO_PAGE_X, STY_ZERO_PAGE_X, AND_ZERO_PAGE_X,
     EOR_ZERO_PAGE_X, ORA_ZERO_PAGE_X, ADC_ZERO_PAGE_X, SBC_ZERO_PAGE_X, CMP_ZERO_PAGE_X,
     INC_ZERO_PAGE_X, DEC_ZERO_PAGE_X, ASL_ZERO_PAGE_X, LSR_ZERO_PAGE_X, ROL_ZERO_PAGE_X,
     ROR_ZERO_PAGE_X}

ZeroPageYOps == {LDX_ZERO_PAGE_Y, STX_ZERO_PAGE_Y}

\* the instructions with (zp,X) addressing, and the read-class instructions
\* with (zp),Y addressing
IndirectXOps ==
    {LDA_INDIRECT_X, STA_INDIRECT_X, AND_INDIRECT_X, EOR_INDIRECT_X, ORA_INDIRECT_X,
     ADC_INDIRECT_X, SBC_INDIRECT_X, CMP_INDIRECT_X}

ReadOpsIndirectY ==
    {LDA_INDIRECT_Y, AND_INDIRECT_Y, EOR_INDIRECT_Y, ORA_INDIRECT_Y, ADC_INDIRECT_Y,
     SBC_INDIRECT_Y, CMP_INDIRECT_Y}

\* the write-class and read-modify-write instructions that add an index to
\* a 16-bit address, with the cycles they subtract from the budget
IndexedWriteCost ==
    {<<STA_ABSOLUTE_X, 5>>, <<STA_ABSOLUTE_Y, 5>>, <<STA_INDIRECT_Y, 6>>,
     <<INC_ABSOLUTE_X, 7>>, <<DEC_ABSOLUTE_X, 7>>, <<ASL_ABSOLUTE_X, 7>>,
     <<LSR_ABSOLUTE_X, 7>>, <<ROL_ABSOLUTE_X, 7>>, <<ROR_ABSOLUTE_X, 7>>}

\*   LDX #i; LDY #i   and then   op base   or   op zp
\* with 256 different bytes in the zero page (0xDA at 0x00F0 and 0xFF at
\* 0x00F1: the pointer 0xFFDA)
ProgramsAbsolute ==
    {Program(Place(Place(Boot, Org, <<LDX_IMMEDIATE, i, LDY_IMMEDIATE, i>>),
                   0, [a \in 1..U8 |-> (a * 37 + 5) % U8]),
             3, "Wdc",
             {Instruction(<<op, Lo(base), Hi(base)>>, 1) :
                 op \in ReadOpsAbsoluteX \cup ReadOpsAbsoluteY
                         \cup ({c[1] : c \in IndexedWriteCost} \ {STA_INDIRECT_Y}),
                 base \in AddrVals}
             \cup {Instruction(<<op, zp>>, 1) :
                      op \in ZeroPageXOps \cup ZeroPageYOps, zp \in ByteVals}
             \cup {Instruction(<<op, zp>>, 1) :
                      op \in IndirectXOps \cup ReadOpsIndirectY \cup {STA_INDIRECT_Y},
                      zp \in ByteVals \cup {240}}) :
        i \in IndexVals}

\* sample stack pointers: 0x00, 0x01, 0x40, 0xFE, 0xFF
StackVals == {0, 1, 64, U8 - 2, U8 - 1}

\* call sites 0x8000, 0x7FFE, 0x04FD and subroutines 0x2040, 0x6000
CallSites == {32768, 32766, 1277}
Subroutines == {8256, 24576}

\*   LDX #s; TXS; JMP p   with RTS at every subroutine address, and then
\*   p: JSR t
JsrImage(s, p) ==
    LET code == Place(Boot, Org, <<LDX_IMMEDIATE, s, TXS_IMPLIED, JMP_ABSOLUTE, Lo(p), Hi(p)>>)
    IN  [x \in (DOMAIN code) \cup Subroutines |->
            IF x \in Subroutines THEN RTS_IMPLIED ELSE code[x]]

\* The call site 0xFFFD: the three bytes of the JSR end at the last byte of
\* memory.  The jump at the reset program counter and the JSR share the
\* bytes 0xFFFD and 0xFFFE, so the start-up code is at 0x0320 (0x20 is
\* JSR_ABSOLUTE) and the subroutine at 0x2003.
LastSite == U16 - 3
LastSiteOrg == 3 * U8 + JSR_ABSOLUTE
LastSiteTarget == JSR_ABSOLUTE * U8 + 3

LastSiteImage(s) ==
    LET boot == Place(MemoryDefault, RESET_PC,
                      <<JMP_ABSOLUTE, Lo(LastSiteOrg), Hi(LastSiteOrg)>>)
        code == Place(boot, LastSiteOrg,
                      <<LDX_IMMEDIATE, s, TXS_IMPLIED, JMP_ABSOLUTE, Lo(LastSite), Hi(LastSite)>>)
    IN  Place(code, LastSiteTarget, <<RTS_IMPLIED>>)

ProgramsJsr ==
    {Program(JsrImage(s, p), 4, "Wdc",
             {Instruction(<<JSR_ABSOLUTE, Lo(t), Hi(t)>>, 2) : t \in Subroutines}) :
        s \in StackVals, p \in CallSites}
    \cup
    {Program(LastSiteImage(s), 4, "Wdc",
             {Instruction(<<JSR_ABSOLUTE, Lo(LastSiteTarget), Hi(LastSiteTarget)>>, 2)}) :
        s \in StackVals}

\* pointer addresses 0x10FF, 0x4020, 0x00FF, 0x7F00, 0xFFFF
PointerVals == {4351, 16416, U8 - 1, 32512, U16 - 1}

\* the bytes of the target found at the pointer and at the start of its page
TargetLow == 96
TargetHigh == 112

\* TargetLow at the pointer, TargetHigh at the first byte of the pointer's page
\* and the byte after at pointer + 1
JmpImage(pointer, after) ==
    LET a == Place(MemoryDefault, (pointer + 1) % U16, <<after>>)
        page == Place(a, pointer - Lo(pointer), <<TargetHigh>>)
    IN  Place(page, pointer, <<TargetLow>>)

\*   JMP (pointer)   at the reset program counter
ProgramsJmp ==
    {Program(JmpImage(pointer, after), 0, md,
             {Instruction(<<JMP_INDIRECT, Lo(pointer), Hi(pointer)>>, 1)}) :
        pointer \in PointerVals, after \in ByteVals, md \in OperatingMode}

\*   LDX #w; TXS; LDY #~w; LDA #w; PLP   and then a byte that is no instruction
ProgramsIllegal ==
    {Program(RegImage(w, f), 6, md, {Instruction(<<op>>, 1) : op \in IllegalOpcodes}) :
        w \in {1, NEGATIVE_BIT}, f \in FlagVals, md \in OperatingMode}

\* the stack instructions
StackOps == {PHA_IMPLIED, PHP_IMPLIED, PLA_IMPLIED, PLP_IMPLIED}

\* the byte the accumulator holds in test::pha_implied
PushedByte == 50

\*   LDX #s; TXS; LDA #0x32; PHA (U8 times)   and then one stack instruction,
\* RTI, PLP followed by PHP or BRK, or one of
\*   LDA #v; PHA; LDA #~v; PLA
\*   LDA #v; PHA; PLP; PHP; LDA #~v; PLP
PushRun == Org + 5

PushImage(s) ==
    Place(Place(Boot, Org, <<LDX_IMMEDIATE, s, TXS_IMPLIED, LDA_IMMEDIATE, PushedByte>>),
          PushRun, [i \in 1..U8 |-> PHA_IMPLIED])

\*   LDX #s; TXS; LDY #0; LDA #b; PHA (U8 times, each with another byte b);
\*   PLA (U8 times)
LifoImage(s) ==
    Place(Place(Place(Boot, Org, <<LDX_IMMEDIATE, s, TXS_IMPLIED, LDY_IMMEDIATE, 0>>),
                PushRun, [i \in 1..(3 * U8) |->
                             CASE i % 3 = 1 -> LDA_IMMEDIATE
                               [] i % 3 = 2 -> (((i + 1) \div 3) * 37 + 5) % U8
                               [] OTHER -> PHA_IMPLIED]),
          PushRun + 3 * U8, [j \in 1..U8 |-> PLA_IMPLIED])

\* the number of return addresses the stack page holds
NestDepth == U8 \div 2

\*   LDX #s; TXS;   and then from Org + 3 on, NestDepth times,
\*   JSR <the next JSR>; RTS   with RTS where the last JSR goes
NestImage(s) ==
    Place(Place(Boot, Org, <<LDX_IMMEDIATE, s, TXS_IMPLIED>>),
          Org + 3, [i \in 1..(4 * NestDepth + 1) |->
                       CASE i % 4 = 1 /\ i < 4 * NestDepth -> JSR_ABSOLUTE
                         [] i % 4 = 2 -> Lo(Org + 3 + i + 2)
                         [] i % 4 = 3 -> Hi(Org + 3 + i + 1)
                         [] OTHER -> RTS_IMPLIED])

ProgramsStack ==
    {Program(PushImage(s), 4 + U8, "Wdc",
             {Instruction(<<op>>, 1) : op \in StackOps \cup {RTI_IMPLIED}}
             \cup {Instruction(<<PLP_IMPLIED, op>>, 2) : op \in {PHP_IMPLIED, BRK_IMPLIED}}
             \cup {Instruction(<<LDA_IMMEDIATE, v, PHA_IMPLIED,
                                 LDA_IMMEDIATE, U8 - 1 - v, PLA_IMPLIED>>, 4) : v \in ByteVals}
             \cup {Instruction(<<LDA_IMMEDIATE, v, PHA_IMPLIED, PLP_IMPLIED, PHP_IMPLIED,
                                 LDA_IMMEDIATE, U8 - 1 - v, PLP_IMPLIED>>, 6) : v \in ByteVals}) :
        s \in StackVals}
    \cup {Program(LifoImage(s), 4 + 3 * U8, "Wdc", {}) : s \in StackVals}
    \cup {Program(NestImage(s), 3 + 2 * NestDepth, "Wdc", {}) : s \in StackVals}

\* the conditional branches: the instruction byte, the flag it tests and
\* the state of the flag that takes the branch
BranchArms ==
    {<<BCS_RELATIVE, CARRY, TRUE>>, <<BCC_RELATIVE, CARRY, FALSE>>,
     <<BEQ_RELATIVE, ZERO, TRUE>>, <<BNE_RELATIVE, ZERO, FALSE>>,
     <<BMI_RELATIVE, NEGATIVE, TRUE>>, <<BPL_RELATIVE, NEGATIVE, FALSE>>,
     <<BVS_RELATIVE, OVERFLOW, TRUE>>, <<BVC_RELATIVE, OVERFLOW, FALSE>>}

\* the bytes of an instruction: the opcode and the operand bytes its arm
\* fetches (none for the implied and accumulator forms, fetch_word for the
\* absolute and indirect forms, fetch_byte for every other form)
InstructionLength(op) ==
    IF op \in {TAX_IMPLIED, TAY_IMPLIED, TXA_IMPLIED, TYA_IMPLIED, TSX_IMPLIED,
               TXS_IMPLIED, PHA_IMPLIED, PHP_IMPLIED, PLA_IMPLIED, PLP_IMPLIED,
               INX_IMPLIED, INY_IMPLIED, DEX_IMPLIED, DEY_IMPLIED, ASL_ACCUMULATOR,
               LSR_ACCUMULATOR, ROL_ACCUMULATOR, ROR_ACCUMULATOR, RTS_IMPLIED,
               CLC_IMPLIED, CLD_IMPLIED, CLI_IMPLIED, CLV_IMPLIED, SEC_IMPLIED,
               SED_IMPLIED, SEI_IMPLIED, BRK_IMPLIED, NOP_IMPLIED, RTI_IMPLIED}
    THEN 1
    ELSE IF op \in {LDA_ABSOLUTE, LDA_ABSOLUTE_X, LDA_ABSOLUTE_Y, LDX_ABSOLUTE,
                    LDX_ABSOLUTE_Y, LDY_ABSOLUTE, LDY_ABSOLUTE_X, STA_ABSOLUTE,
                    STA_ABSOLUTE_X, STA_ABSOLUTE_Y, STX_ABSOLUTE, STY_ABSOLUTE,
                    AND_ABSOLUTE, AND_ABSOLUTE_X, AND_ABSOLUTE_Y, EOR_ABSOLUTE,
                    EOR_ABSOLUTE_X, EOR_ABSOLUTE_Y, ORA_ABSOLUTE, ORA_ABSOLUTE_X,
                    ORA_ABSOLUTE_Y, BIT_ABSOLUTE, ADC_ABSOLUTE, ADC_ABSOLUTE_X,
                    ADC_ABSOLUTE_Y, SBC_ABSOLUTE, SBC_ABSOLUTE_X, SBC_ABSOLUTE_Y,
                    CMP_ABSOLUTE, CMP_ABSOLUTE_X, CMP_ABSOLUTE_Y, CPX_ABSOLUTE,
                    CPY_ABSOLUTE, INC_ABSOLUTE, INC_ABSOLUTE_X, DEC_ABSOLUTE,
                    DEC_ABSOLUTE_X, ASL_ABSOLUTE, ASL_ABSOLUTE_X, LSR_ABSOLUTE,
                    LSR_ABSOLUTE_X, ROL_ABSOLUTE, ROL_ABSOLUTE_X, ROR_ABSOLUTE,
                    ROR_ABSOLUTE_X, JMP_ABSOLUTE, JMP_INDIRECT, JSR_ABSOLUTE}
    THEN 3
    ELSE 2

\* the arms of execute_single that write to the memory
MemoryWriters ==
    {STA_ZERO_PAGE, STA_ZERO_PAGE_X, STA_ABSOLUTE, STA_ABSOLUTE_X, STA_ABSOLUTE_Y,
     STA_INDIRECT_X, STA_INDIRECT_Y, STX_ZERO_PAGE, STX_ZERO_PAGE_Y, STX_ABSOLUTE,
     STY_ZERO_PAGE, STY_ZERO_PAGE_X, STY_ABSOLUTE, INC_ZERO_PAGE, INC_ZERO_PAGE_X,
     INC_ABSOLUTE, INC_ABSOLUTE_X, DEC_ZERO_PAGE, DEC_ZERO_PAGE_X, DEC_ABSOLUTE,
     DEC_ABSOLUTE_X, ASL_ZERO_PAGE, ASL_ZERO_PAGE_X, ASL_ABSOLUTE, ASL_ABSOLUTE_X,
     LSR_ZERO_PAGE, LSR_ZERO_PAGE_X, LSR_ABSOLUTE, LSR_ABSOLUTE_X, ROL_ZERO_PAGE,
     ROL_ZERO_PAGE_X, ROL_ABSOLUTE, ROL_ABSOLUTE_X, ROR_ZERO_PAGE, ROR_ZERO_PAGE_X,
     ROR_ABSOLUTE, ROR_ABSOLUTE_X, PHA_IMPLIED, PHP_IMPLIED, JSR_ABSOLUTE, BRK_IMPLIED}

\* call and prev: the call (op), its budget, the Cpu and the memory it
\* started from (cpu, memory), the memory it left (left), what it returned,
\* whether it panicked, and its memory accesses in order (bus)
NoCall == [op |-> "new", budget |-> 0, cpu |-> CpuDefault, memory |-> MemoryDefault,
           left |-> MemoryDefault, returned |-> U32Of(0), panicked |-> FALSE, bus |-> << >>]

InitWith(programs) ==
    /\ \E p \in programs :
          /\ cpu = with_mode(p.mode)
          /\ memory = p.memory
          /\ len = p.len
          /\ next = p.next
    /\ overflow_checks \in BOOLEAN
    /\ call = NoCall
    /\ prev = NoCall
    /\ steps = 0

\* cpu.execute_single(&mut memory, budget)
ExecuteSingle ==
    /\ ~call.panicked
    /\ steps < len + ExtraCalls
    /\ \E budget \in Budgets :
          \E m \in {execute_single(cpu, memory, budget, overflow_checks)} :
              /\ cpu' = m.cpu
              /\ memory' = m.memory
              /\ call' = [op |-> "execute_single", budget |-> budget, cpu |-> cpu,
                          memory |-> memory, left |-> m.memory, returned |-> m.cycles,
                          panicked |-> m.panicked, bus |-> m.bus]
    /\ prev' = call
    /\ steps' = steps + 1
    /\ UNCHANGED <<overflow_checks, len, next>>

\* memory.write(address, value): one byte.  The host takes the byte and
\* the address from what it may write next: it begins bytes that go to the
\* program counter once the calls it had to make are made, and it writes
\* them where they fit below the top of the memory; bytes with an address
\* of their own, and the rest of bytes it has begun, it writes at any time.
Write ==
    /\ ~call.panicked
    /\ \E i \in next :
          /\ i.at = U16 => steps = len
          /\ \E address \in {IF i.at = U16 THEN cpu.program_counter ELSE i.at} :
                /\ address + Len(i.code) <= U16
                /\ memory' = MemoryWrite(memory, address, Head(i.code))
                /\ next' = IF Len(i.code) > 1
                           THEN {[i EXCEPT !.code = Tail(i.code), !.at = address + 1]}
                           ELSE i.then
          /\ len' = IF Len(i.code) > 1 THEN len ELSE len + i.calls
    /\ UNCHANGED <<cpu, overflow_checks, call, prev, steps>>

\* what the host may still write when it has reset the Cpu or the memory:
\* the bytes that have an address of their own
Addressed(instructions) == {i \in instructions : i.addressed}

\* cpu.reset(): it ends the run of the program
Reset ==
    /\ ~call.panicked
    /\ steps <= len
    /\ cpu' = reset(cpu)
    /\ UNCHANGED memory
    /\ call' = [NoCall EXCEPT !.op = "reset", !.memory = memory, !.left = memory']
    /\ prev' = call
    /\ next' = Addressed(next)
    /\ len' = steps
    /\ UNCHANGED <<overflow_checks, steps>>

\* memory.reset(): the memory is zero-filled.  The host calls it when it
\* has made the calls it had to make, and the program it had written is gone.
MemoryReset ==
    /\ ~call.panicked
    /\ steps = len
    /\ memory' = MemoryDefault
    /\ next' = Addressed(next)
    /\ UNCHANGED <<cpu, overflow_checks, call, prev, steps, len>>

Next == ExecuteSingle \/ Write \/ Reset \/ MemoryReset

Init == InitWith(ProgramsLda \cup ProgramsJmp \cup ProgramsJsr)

Spec == Init /\ [][Next]_vars

SpecLda == InitWith(ProgramsLda) /\ [][Next]_vars

SpecReg == InitWith(ProgramsReg) /\ [][Next]_vars

SpecAbsolute == InitWith(ProgramsAbsolute) /\ [][Next]_vars

SpecJsr == InitWith(ProgramsJsr) /\ [][Next]_vars

SpecJmp == InitWith(ProgramsJmp) /\ [][Next]_vars

SpecIllegal == InitWith(ProgramsIllegal) /\ [][Next]_vars

SpecStack == InitWith(ProgramsStack) /\ [][Next]_vars

\*   LDX #s; TXS; PLP; JMP p   with the status byte f where PLP pops it and
\* RTI where the interrupt vector (the last two bytes of the jump at the
\* reset program counter) points, and then at p a conditional branch, or
\* BRK, which the RTI follows; p in 0x0300, 0x30F0, 0x7FF0, 0x8000, 0xFFF0
SpecControl ==
    /\ InitWith({Program(Place(Place(Place(Boot, Org, <<LDX_IMMEDIATE, s, TXS_IMPLIED,
                                                        PLP_IMPLIED, JMP_ABSOLUTE, Lo(p), Hi(p)>>),
                                     STACK_BASE + WrappingSub8(s, 1), <<f>>),
                               Hi(Org), <<RTI_IMPLIED>>),
                         5, "Wdc",
                         {Instruction(<<arm[1], d>>, 1) : arm \in BranchArms, d \in ByteVals}
                         \cup {Instruction(<<BRK_IMPLIED>>, 2)}) :
                     s \in StackVals, p \in {768, 12528, 32752, 32768, 65520}, f \in FlagVals})
    /\ [][Next]_vars

\*   LDX #s; TXS; PLP; JMP p   as above, and then BRK at p, which the RTI at
\* the interrupt vector address follows; p in 0x0300, 0x30F0, 0xFFF0 and
\* 0xFFFF, the last address of the memory
SpecInterrupt ==
    /\ InitWith({Program(Place(Place(Place(Boot, Org, <<LDX_IMMEDIATE, s, TXS_IMPLIED,
                                                        PLP_IMPLIED, JMP_ABSOLUTE, Lo(p), Hi(p)>>),
                                     STACK_BASE + WrappingSub8(s, 1), <<f>>),
                               Hi(Org), <<RTI_IMPLIED>>),
                         5, "Wdc",
                         {Instruction(<<BRK_IMPLIED>>, 2)}) :
                     s \in StackVals, p \in {768, 12528, 65520, U16 - 1}, f \in FlagVals})
    /\ [][Next]_vars

\*   LDX #w; TXS; LDY #~w; LDA #w; PLP   and then every byte as an
\* instruction, with the operand bytes 40 02 or F0 30
SpecEvery ==
    /\ InitWith({Program(RegImage(w, f), 6, "Wdc",
                         {Instruction(<<op, operand[1], operand[2]>>, 1) :
                             op \in 0..(U8 - 1), operand \in {<<64, 2>>, <<240, 48>>}}) :
                     w \in {1, NEGATIVE_BIT}, f \in {0, CARRY + DECIMAL_MODE, U8 - 1}})
    /\ [][Next]_vars

\* ------------------------------------------------------------------------
\* Vocabulary of the properties.  After an ExecuteSingle step, call holds
\* the state the call started from and the memory it left (call.left), and
\* cpu is the Cpu it left; the host may have written to memory since.
\* ------------------------------------------------------------------------
Executed == call.op = "execute_single"

\* the call returned (it did not panic)
Completed == Executed /\ ~call.panicked

\* the instruction byte the call fetched, and the two bytes after it
Opcode == MemoryRead(call.memory, call.cpu.program_counter)
OperandByte == MemoryRead(call.memory, (call.cpu.program_counter + 1) % U16)
OperandWord ==
    OperandByte + U8 * MemoryRead(call.memory, (call.cpu.program_counter + 2) % U16)

\* the byte returned by the last read of the call (no arm of execute_single
\* reads an address it has written before): the operand of a read-class
\* instruction in every addressing mode
Operand ==
    LET reads == {k \in 1..Len(call.bus) : call.bus[k].rw = "r"}
    IN  MemoryRead(call.memory,
                   call.bus[CHOOSE k \in reads : \A j \in reads : j <= k].address)

\* flags.intersects(flag), as the tests of the repository ask for a flag
FlagIsSet(flags, flag) == FlagsIntersects(flags, flag)

\* the call started from the state a new or reset Cpu has
FromResetState == [call.cpu EXCEPT !.mode = "Wdc"] = CpuDefault

\* the call as it runs with an ample budget in a build without overflow
\* checks: the full effect of the instruction and, by what is left of the
\* budget, its cost
Full == execute_single(call.cpu, call.memory, MaxBudget, FALSE)
Cost == MaxBudget - Full.cycles.lo

\* the cycles a returned call has used: budget - returned in the u32
\* arithmetic of the cycle counter (modulo 2^32)
Used ==
    LET budget == U32Of(call.budget)
        borrow == IF budget.lo < call.returned.lo THEN 1 ELSE 0
    IN  ((budget.hi - call.returned.hi - borrow + 2 * U16) % U16) * U16
            + ((budget.lo - call.returned.lo + U16) % U16)

\* Zero and Negative reflect the value
ZeroNegativeOf(flags, value) ==
    /\ FlagIsSet(flags, ZERO) <=> (value = 0)
    /\ FlagIsSet(flags, NEGATIVE) <=> (BitAnd(value, NEGATIVE_BIT) # 0)

WritesA ==
    {LDA_IMMEDIATE, LDA_ZERO_PAGE, LDA_ZERO_PAGE_X, LDA_ABSOLUTE, LDA_ABSOLUTE_X,
     LDA_ABSOLUTE_Y, LDA_INDIRECT_X, LDA_INDIRECT_Y, TXA_IMPLIED, TYA_IMPLIED, PLA_IMPLIED,
     AND_IMMEDIATE, AND_ZERO_PAGE, AND_ZERO_PAGE_X, AND_ABSOLUTE, AND_ABSOLUTE_X,
     AND_ABSOLUTE_Y, AND_INDIRECT_X, AND_INDIRECT_Y,
     ORA_IMMEDIATE, ORA_ZERO_PAGE, ORA_ZERO_PAGE_X, ORA_ABSOLUTE, ORA_ABSOLUTE_X,
     ORA_ABSOLUTE_Y, ORA_INDIRECT_X, ORA_INDIRECT_Y,
     EOR_IMMEDIATE, EOR_ZERO_PAGE, EOR_ZERO_PAGE_X, EOR_ABSOLUTE, EOR_ABSOLUTE_X,
     EOR_ABSOLUTE_Y, EOR_INDIRECT_X, EOR_INDIRECT_Y,
     ADC_IMMEDIATE, ADC_ZERO_PAGE, ADC_ZERO_PAGE_X, ADC_ABSOLUTE, ADC_ABSOLUTE_X,
     ADC_ABSOLUTE_Y, ADC_INDIRECT_X, ADC_INDIRECT_Y,
     SBC_IMMEDIATE, SBC_ZERO_PAGE, SBC_ZERO_PAGE_X, SBC_ABSOLUTE, SBC_ABSOLUTE_X,
     SBC_ABSOLUTE_Y, SBC_INDIRECT_X, SBC_INDIRECT_Y,
     ASL_ACCUMULATOR, LSR_ACCUMULATOR, ROL_ACCUMULATOR, ROR_ACCUMULATOR}

WritesX ==
    {LDX_IMMEDIATE, LDX_ZERO_PAGE, LDX_ZERO_PAGE_Y, LDX_ABSOLUTE, LDX_ABSOLUTE_Y,
     TAX_IMPLIED, TSX_IMPLIED, INX_IMPLIED, DEX_IMPLIED}

WritesY ==
    {LDY_IMMEDIATE, LDY_ZERO_PAGE, LDY_ZERO_PAGE_X, LDY_ABSOLUTE, LDY_ABSOLUTE_X,
     TAY_IMPLIED, INY_IMPLIED, DEY_IMPLIED}

AdcOps ==
    {ADC_IMMEDIATE, ADC_ZERO_PAGE, ADC_ZERO_PAGE_X, ADC_ABSOLUTE, ADC_ABSOLUTE_X,
     ADC_ABSOLUTE_Y, ADC_INDIRECT_X, ADC_INDIRECT_Y}

SbcOps ==
    {SBC_IMMEDIATE, SBC_ZERO_PAGE, SBC_ZERO_PAGE_X, SBC_ABSOLUTE, SBC_ABSOLUTE_X,
     SBC_ABSOLUTE_Y, SBC_INDIRECT_X, SBC_INDIRECT_Y}

\* ------------------------------------------------------------------------
\* C1: from the reset state with LDA #v at 0xFFFC, one execute_single call
\* with budget 2 returns 0 and leaves A = v, Zero = (v = 0),
\* Negative = (bit 7 of v) and the program counter at 0xFFFE.
\* ------------------------------------------------------------------------
C1_LdaImmediateFromReset ==
    (Executed /\ FromResetState /\ Opcode = LDA_IMMEDIATE /\ call.budget = 2) =>
        /\ ~call.panicked
        /\ cpu.register_accumulator = OperandByte
        /\ ZeroNegativeOf(cpu.flags, OperandByte)
        /\ cpu.program_counter = RESET_PC + 2
        /\ call.returned = U32Of(0)

\* LDA #0x80 ran from the reset state with budget 2 in a build with
\* overflow checks
C1_Witness ==
    /\ Completed /\ FromResetState /\ Opcode = LDA_IMMEDIATE /\ call.budget = 2
    /\ overflow_checks
    /\ OperandByte = NEGATIVE_BIT
    /\ cpu.register_accumulator = NEGATIVE_BIT

\* ------------------------------------------------------------------------
\* C2: after an instruction that writes A, X or Y, Zero and Negative
\* reflect the value now in that register, whatever the flags were before.
\* ------------------------------------------------------------------------
C2_ZeroNegativeFollowWrittenRegister ==
    Completed =>
        /\ Opcode \in WritesA => ZeroNegativeOf(cpu.flags, cpu.register_accumulator)
        /\ Opcode \in WritesX => ZeroNegativeOf(cpu.flags, cpu.register_x)
        /\ Opcode \in WritesY => ZeroNegativeOf(cpu.flags, cpu.register_y)

\* INX ran with Zero and Negative both set and left X = 2 with both clear
C2_Witness ==
    /\ Completed /\ Opcode = INX_IMPLIED
    /\ FlagIsSet(call.cpu.flags, NEGATIVE) /\ FlagIsSet(call.cpu.flags, ZERO)
    /\ cpu.register_x = 2
    /\ ~FlagIsSet(cpu.flags, ZERO) /\ ~FlagIsSet(cpu.flags, NEGATIVE)

\* ------------------------------------------------------------------------
\* C3: SBC of v leaves the accumulator and the flags that add_with_carry of
\* the bitwise complement of v leaves from the same state.
\* ------------------------------------------------------------------------
C3_SubtractIsAddOfComplement ==
    (Completed /\ Opcode \in SbcOps) =>
        \A ref \in {add_with_carry(Machine(call.cpu, call.memory, call.budget, FALSE),
                                   U8 - 1 - Operand).cpu} :
            /\ cpu.register_accumulator = ref.register_accumulator
            /\ cpu.flags = ref.flags

\* SBC #1 ran with A = 0 and Carry set: A = 0xFF, Carry clear, Negative set
C3_Witness ==
    /\ Completed /\ Opcode = SBC_IMMEDIATE /\ Operand = 1
    /\ call.cpu.register_accumulator = 0 /\ FlagIsSet(call.cpu.flags, CARRY)
    /\ cpu.register_accumulator = U8 - 1
    /\ ~FlagIsSet(cpu.flags, CARRY) /\ FlagIsSet(cpu.flags, NEGATIVE)

\* ------------------------------------------------------------------------
\* C4: ADC computes sum = A + operand + carry-in, sets Carry iff sum > 0xFF,
\* stores sum mod 256 in A and sets Overflow iff A and the operand had the
\* same sign bit and the result's sign bit differs from A's, whatever the
\* Decimal flag is.
\* ------------------------------------------------------------------------
C4_AddWithCarry ==
    (Completed /\ Opcode \in AdcOps) =>
        \A sum \in {call.cpu.register_accumulator + Operand
                    + (IF FlagIsSet(call.cpu.flags, CARRY) THEN 1 ELSE 0)} :
            /\ FlagIsSet(cpu.flags, CARRY) <=> (sum > U8 - 1)
            /\ cpu.register_accumulator = sum % U8
            /\ FlagIsSet(cpu.flags, OVERFLOW) <=>
                  /\ (call.cpu.register_accumulator >= NEGATIVE_BIT) <=> (Operand >= NEGATIVE_BIT)
                  /\ (cpu.register_accumulator >= NEGATIVE_BIT) #
                         (call.cpu.register_accumulator >= NEGATIVE_BIT)

\* ADC #1 ran with A = 127, Carry clear and Decimal set: A = 128, Carry
\* clear, Overflow set
C4_Witness ==
    /\ Completed /\ Opcode = ADC_IMMEDIATE /\ Operand = 1
    /\ call.cpu.register_accumulator = NEGATIVE_BIT - 1
    /\ ~FlagIsSet(call.cpu.flags, CARRY) /\ FlagIsSet(call.cpu.flags, DECIMAL_MODE)
    /\ cpu.register_accumulator = NEGATIVE_BIT
    /\ ~FlagIsSet(cpu.flags, CARRY) /\ FlagIsSet(cpu.flags, OVERFLOW)

\* ------------------------------------------------------------------------
\* C5: a read-class instruction with absolute,X or absolute,Y addressing,
\* given a budget that covers it, costs 4 cycles when base and base + index
\* have the same high byte and 5 cycles when they differ, for every base
\* and index.
\* ------------------------------------------------------------------------
IndexRegister ==
    IF Opcode \in ReadOpsAbsoluteX THEN call.cpu.register_x ELSE call.cpu.register_y

C5_AbsoluteIndexedReadCost ==
    (Executed /\ Opcode \in ReadOpsAbsoluteX \cup ReadOpsAbsoluteY
              /\ call.budget = MaxBudget) =>
        /\ ~call.panicked
        /\ call.returned.hi = 0
        /\ Used = IF Hi(OperandWord) = Hi(OperandWord + IndexRegister) THEN 4 ELSE 5

\* ------------------------------------------------------------------------
\* C6: JSR t at p followed by RTS at t, each given a budget that covers it:
\* each costs exactly 6 cycles, and the RTS leaves the program counter at
\* p + 3 (in 16 bits) and the stack pointer at its value before the JSR,
\* for every p, t and stack pointer.
\* ------------------------------------------------------------------------
JsrCall(c) ==
    /\ c.op = "execute_single"
    /\ MemoryRead(c.memory, c.cpu.program_counter) = JSR_ABSOLUTE
    /\ c.budget = MaxBudget

C6_SubroutineRoundTrip ==
    /\ JsrCall(call) =>
          /\ ~call.panicked
          /\ call.returned.hi = 0 /\ Used = 6
          /\ cpu.program_counter = OperandWord
    /\ (JsrCall(prev) /\ ~prev.panicked
            /\ Executed /\ Opcode = RTS_IMPLIED /\ call.budget = MaxBudget) =>
          /\ ~call.panicked
          /\ call.returned.hi = 0 /\ Used = 6
          /\ cpu.program_counter = (prev.cpu.program_counter + 3) % U16
          /\ cpu.stack_pointer = prev.cpu.stack_pointer

\* ------------------------------------------------------------------------
\* C7: in Mos mode JMP indirect through a pointer at xxFF takes the low
\* byte of the target from xxFF and the high byte from xx00, whatever is
\* stored at xxFF + 1.
\* ------------------------------------------------------------------------
C7_MosIndirectJumpPageWrap ==
    (Completed /\ Opcode = JMP_INDIRECT /\ call.cpu.mode = "Mos"
               /\ Lo(OperandWord) = U8 - 1) =>
        cpu.program_counter =
            MemoryRead(call.memory, OperandWord)
            + U8 * MemoryRead(call.memory, OperandWord - (U8 - 1))

\* JMP (0x10FF) ran in Mos mode with 0x60 at 0x10FF, 0x70 at 0x1000 and
\* 0xFF at 0x1100: the program counter is 0x7060
C7_Witness ==
    /\ Completed /\ Opcode = JMP_INDIRECT /\ call.cpu.mode = "Mos"
    /\ OperandWord = 4351
    /\ MemoryRead(call.memory, 4351) = TargetLow
    /\ MemoryRead(call.memory, 4096) = TargetHigh
    /\ MemoryRead(call.memory, 4352) = U8 - 1
    /\ cpu.program_counter = TargetHigh * U8 + TargetLow

\* ------------------------------------------------------------------------
\* C8: in Wdc mode JMP indirect through the pointer P, given a budget that
\* covers it, sets the program counter to memory[P] | memory[P + 1] << 8
\* (P + 1 in 16 bits) and costs 5 cycles, for every P.
\* ------------------------------------------------------------------------
C8_WdcIndirectJump ==
    (Executed /\ Opcode = JMP_INDIRECT /\ call.cpu.mode = "Wdc"
              /\ call.budget = MaxBudget) =>
        /\ ~call.panicked
        /\ cpu.program_counter =
               MemoryRead(call.memory, OperandWord)
               + U8 * MemoryRead(call.memory, (OperandWord + 1) % U16)
        /\ call.returned.hi = 0 /\ Used = 5

\* ------------------------------------------------------------------------
\* C9: no execute_single or reset call changes the operating mode of the
\* Cpu.
\* ------------------------------------------------------------------------
C9_ModeNeverChanges == [][cpu'.mode = cpu.mode]_vars

\* ------------------------------------------------------------------------
\* C10: a call whose budget is smaller than the cost of the instruction
\* raises no error, has the full effect of the instruction on the Cpu and
\* the memory, and returns budget - cost, a value below zero.
\* ------------------------------------------------------------------------
C10_BudgetBelowCost ==
    (Executed /\ call.budget < Cost) =>
        /\ ~call.panicked
        /\ cpu = Full.cpu
        /\ call.left = Full.memory
        /\ call.returned.hi = 0
        /\ call.returned.lo = call.budget - Cost

\* ------------------------------------------------------------------------
\* C11: a call that fetches a byte that is no implemented instruction, with
\* a budget of at least 1, returns budget - 1, advances the program counter
\* by exactly 1 and leaves the stack pointer, A, X, Y, the flags and every
\* byte of memory unchanged.
\* ------------------------------------------------------------------------
C11_UnknownOpcodeCostsFetch ==
    (Executed /\ Opcode \in IllegalOpcodes /\ call.budget >= 1) =>
        /\ ~call.panicked
        /\ call.returned = U32Of(call.budget - 1)
        /\ cpu = [call.cpu EXCEPT !.program_counter = call.cpu.program_counter + 1]
        /\ call.left = call.memory

\* the byte 0x02 ran with budget 2 from A = X = 0x80, Y = 0x7F and all flags
\* set, in a build with overflow checks, and returned 1
C11_Witness ==
    /\ Completed /\ Opcode = 2 /\ call.budget = 2 /\ overflow_checks
    /\ call.cpu.register_accumulator = NEGATIVE_BIT /\ call.cpu.register_y = NEGATIVE_BIT - 1
    /\ call.cpu.flags = FlagsAll
    /\ call.returned = U32Of(1)
    /\ cpu.program_counter = call.cpu.program_counter + 1

\* ------------------------------------------------------------------------
\* C12: every push (PHA, PHP) increments the stack pointer modulo 256 and
\* every pop (PLA, PLP) decrements it modulo 256, without a panic when the
\* budget covers the instruction; a run of 256 PHA that starts with the
\* stack pointer s (the operand of LDX before TXS) ends with the stack
\* pointer s.
\* ------------------------------------------------------------------------
C12_StackPointerWraps ==
    /\ (Executed /\ Opcode \in StackOps /\ call.budget = MaxBudget) => ~call.panicked
    /\ (Completed /\ Opcode \in {PHA_IMPLIED, PHP_IMPLIED}) =>
          cpu.stack_pointer = (call.cpu.stack_pointer + 1) % U8
    /\ (Completed /\ Opcode \in {PLA_IMPLIED, PLP_IMPLIED}) =>
          cpu.stack_pointer = (call.cpu.stack_pointer + U8 - 1) % U8
    /\ (Completed /\ Opcode = PHA_IMPLIED
            /\ call.cpu.program_counter = PushRun + U8 - 1) =>
          cpu.stack_pointer = MemoryRead(call.memory, Org + 1)

\* the last PHA of the run that started with the stack pointer 0xFF has
\* run, in a build with overflow checks: the first push wrote 0x01FF and
\* wrapped the stack pointer to 0x00, the last one left it at 0xFF
C12_Witness ==
    /\ Completed /\ Opcode = PHA_IMPLIED /\ overflow_checks
    /\ call.cpu.program_counter = PushRun + U8 - 1
    /\ MemoryRead(call.memory, Org + 1) = U8 - 1
    /\ MemoryRead(call.left, STACK_BASE + U8 - 1) = PushedByte
    /\ MemoryRead(call.left, STACK_BASE + U8 - 2) = PushedByte
    /\ call.cpu.stack_pointer = U8 - 2
    /\ cpu.stack_pointer = U8 - 1

\* ------------------------------------------------------------------------
\* C13: a newly constructed Cpu, and a Cpu right after reset() whatever its
\* state was, has the program counter 0xFFFC, the stack pointer 0xFF,
\* A = X = Y = 0 and no flag set; reset() makes no memory access and
\* leaves the memory as it was.
\* ------------------------------------------------------------------------
C13_ResetState ==
    (call.op \in {"new", "reset"}) =>
        /\ cpu.program_counter = U16 - 4
        /\ cpu.stack_pointer = U8 - 1
        /\ cpu.register_accumulator = 0 /\ cpu.register_x = 0 /\ cpu.register_y = 0
        /\ \A flag \in {CARRY, ZERO, IRQ_DISABLE, DECIMAL_MODE, BREAK_COMMAND, OVERFLOW,
                         NEGATIVE} : ~FlagIsSet(cpu.flags, flag)
        /\ call.bus = << >>
        /\ call.op = "reset" => call.left = call.memory

\* reset() was called on a Mos-mode Cpu right after the PLP that set all
\* flags, with A = X = 0x80, Y = 0x7F and the stack pointer 0x80
C13_Witness ==
    /\ call.op = "reset"
    /\ prev.op = "execute_single" /\ ~prev.panicked
    /\ MemoryRead(prev.memory, prev.cpu.program_counter) = PLP_IMPLIED
    /\ MemoryRead(prev.memory, STACK_BASE + NEGATIVE_BIT - 1) = U8 - 1
    /\ prev.cpu.mode = "Mos"
    /\ prev.cpu.register_accumulator = NEGATIVE_BIT /\ prev.cpu.register_x = NEGATIVE_BIT
    /\ prev.cpu.register_y = NEGATIVE_BIT - 1 /\ prev.cpu.stack_pointer = NEGATIVE_BIT
    /\ cpu.register_accumulator = 0 /\ cpu.stack_pointer = U8 - 1 /\ cpu.flags = 0

\* ------------------------------------------------------------------------
\* C14: in every reachable state bit 5 (0x20) of the status flags is zero,
\* also after PLP or RTI has popped a byte that has bit 5 set; the status
\* byte that PHP or BRK pushes has bit 5 clear.
\* ------------------------------------------------------------------------
C14_UnusedFlagBitIsZero ==
    /\ BitAnd(cpu.flags, 32) = 0
    /\ (Completed /\ Opcode = PHP_IMPLIED) =>
          BitAnd(MemoryRead(call.left, STACK_BASE + call.cpu.stack_pointer), 32) = 0
    /\ (Completed /\ Opcode = BRK_IMPLIED) =>
          BitAnd(MemoryRead(call.left, STACK_BASE + ((call.cpu.stack_pointer + 2) % U8)), 32) = 0

\* PHP ran after a PLP that popped 0x32 (bit 5 set): the flags are 0x12 and
\* PHP pushed 0x12
C14_Witness ==
    /\ Completed /\ Opcode = PHP_IMPLIED
    /\ prev.op = "execute_single"
    /\ MemoryRead(prev.memory, prev.cpu.program_counter) = PLP_IMPLIED
    /\ MemoryRead(prev.memory, STACK_BASE + ((prev.cpu.stack_pointer + U8 - 1) % U8)) = PushedByte
    /\ BitAnd(PushedByte, 32) = 32
    /\ cpu.flags = PushedByte - 32
    /\ MemoryRead(call.left, STACK_BASE + call.cpu.stack_pointer) = PushedByte - 32
    /\ MemoryRead(call.memory, STACK_BASE + call.cpu.stack_pointer) = PushedByte

\* RTI popped 0x32 as the status byte: bit 5 and Break are dropped
C14_WitnessRti ==
    /\ Completed /\ Opcode = RTI_IMPLIED
    /\ MemoryRead(call.memory, STACK_BASE + ((call.cpu.stack_pointer + U8 - 1) % U8)) = PushedByte
    /\ cpu.flags = ZERO

\* ------------------------------------------------------------------------
\* C15: whatever the Cpu state and the memory content, a call whose budget
\* covers the instruction ends without a panic and every address it passes
\* to the memory lies in 0..65535: base + X, base + Y, pointer + 1 in a word
\* read, the branch target and the program counter increments of a fetch
\* stay in the 16-bit range.
\* ------------------------------------------------------------------------
C15_AddressesStayInRange ==
    (Executed /\ call.budget = MaxBudget) =>
        /\ ~call.panicked
        /\ \A i \in DOMAIN call.bus : call.bus[i].address \in 0..(U16 - 1)

\* ------------------------------------------------------------------------
\* C16: the operating mode matters to JMP indirect only when the low byte of
\* the pointer address P is 0xFF: for every other P both modes leave the
\* program counter memory[P] | memory[P + 1] << 8, and for every
\* instruction other than JMP indirect the call in the other mode leaves the
\* same registers, flags, memory and remaining budget.
\* ------------------------------------------------------------------------
C16_ModeOnlyMattersAtPageEnd ==
    /\ (Completed /\ Opcode = JMP_INDIRECT /\ Lo(OperandWord) # U8 - 1) =>
          cpu.program_counter =
              MemoryRead(call.memory, OperandWord)
              + U8 * MemoryRead(call.memory, OperandWord + 1)
    /\ (Executed /\ Opcode # JMP_INDIRECT) =>
          \A mos \in {execute_single([call.cpu EXCEPT !.mode = "Mos"],
                                      call.memory, call.budget, overflow_checks)} :
              \A wdc \in {execute_single([call.cpu EXCEPT !.mode = "Wdc"],
                                          call.memory, call.budget, overflow_checks)} :
                  /\ [mos.cpu EXCEPT !.mode = "Wdc"] = wdc.cpu
                  /\ mos.memory = wdc.memory
                  /\ mos.cycles = wdc.cycles
                  /\ mos.panicked = wdc.panicked

\* ------------------------------------------------------------------------
\* C17: in Mos mode JMP indirect through the pointer address P, also when P
\* is not at the end of a page, sets the program counter to
\* memory[P] | memory[P & 0xFF00] << 8 and costs 5 cycles.
\* ------------------------------------------------------------------------
C17_MosIndirectJumpHighByteFromPageStart ==
    (Executed /\ Opcode = JMP_INDIRECT /\ call.cpu.mode = "Mos"
              /\ call.budget = MaxBudget) =>
        /\ ~call.panicked
        /\ cpu.program_counter =
               MemoryRead(call.memory, OperandWord)
               + U8 * MemoryRead(call.memory, OperandWord - Lo(OperandWord))
        /\ call.returned.hi = 0 /\ Used = 5

\* JMP (0x4020) ran in Mos mode, in a build with overflow checks, with 0x60
\* at 0x4020, 0x70 at 0x4000 and another byte at 0x4021: the program
\* counter is 0x7060
C17_Witness ==
    /\ Completed /\ Opcode = JMP_INDIRECT /\ call.cpu.mode = "Mos" /\ overflow_checks
    /\ call.budget = MaxBudget
    /\ OperandWord = 16416
    /\ MemoryRead(call.memory, 16416) = TargetLow
    /\ MemoryRead(call.memory, 16384) = TargetHigh
    /\ MemoryRead(call.memory, 16417) = NEGATIVE_BIT
    /\ cpu.program_counter = TargetHigh * U8 + TargetLow
    /\ Used = 5

\* ------------------------------------------------------------------------
\* C18: JSR at the address p pushes, as two bytes, p + 2 (the address of the
\* last byte of the instruction), not p + 3, and sets the program counter
\* to the target.
\* ------------------------------------------------------------------------
C18_JsrPushesLastByteAddress ==
    (Completed /\ Opcode = JSR_ABSOLUTE) =>
        \A first \in {MemoryRead(call.left, STACK_BASE + call.cpu.stack_pointer)} :
        \A second \in {MemoryRead(call.left, STACK_BASE + ((call.cpu.stack_pointer + 1) % U8))} :
            /\ (call.cpu.program_counter + 2) % U16 \in {first + U8 * second, second + U8 * first}
            /\ cpu.program_counter = OperandWord

\* ------------------------------------------------------------------------
\* C19: RTS pops two bytes, the high byte first and then the low byte, and
\* sets the program counter to the address r they form plus one; the stack
\* pointer ends two below its starting value (modulo 256).
\* ------------------------------------------------------------------------
C19_RtsReturnsToPoppedAddressPlusOne ==
    (Completed /\ Opcode = RTS_IMPLIED) =>
        \A high \in {MemoryRead(call.memory,
                                 STACK_BASE + ((call.cpu.stack_pointer + U8 - 1) % U8))} :
        \A low \in {MemoryRead(call.memory,
                                STACK_BASE + ((call.cpu.stack_pointer + U8 - 2) % U8))} :
            /\ cpu.program_counter = (U8 * high + low + 1) % U16
            /\ cpu.stack_pointer = (call.cpu.stack_pointer + U8 - 2) % U8

\* ------------------------------------------------------------------------
\* C20: BIT (zero page and absolute) of the memory byte m with the
\* accumulator A sets Overflow to bit 6 of m, Negative to bit 7 of m and
\* Zero to ((m AND A) = 0), and leaves the accumulator and Carry unchanged.
\* ------------------------------------------------------------------------
C20_BitTest ==
    (Completed /\ Opcode \in {BIT_ZERO_PAGE, BIT_ABSOLUTE}) =>
        /\ FlagIsSet(cpu.flags, OVERFLOW) <=> (BitAnd(Operand, 64) # 0)
        /\ FlagIsSet(cpu.flags, NEGATIVE) <=> (BitAnd(Operand, 128) # 0)
        /\ FlagIsSet(cpu.flags, ZERO) <=> (BitAnd(Operand, call.cpu.register_accumulator) = 0)
        /\ cpu.register_accumulator = call.cpu.register_accumulator
        /\ FlagIsSet(cpu.flags, CARRY) <=> FlagIsSet(call.cpu.flags, CARRY)

\* ------------------------------------------------------------------------
\* C21: CMP, CPX and CPY of the register value r with the operand m set
\* Carry = (r >= m), Zero = (r = m) and Negative = bit 7 of (r - m) mod 256
\* and leave A, X, Y, the stack pointer, Overflow and the memory unchanged.
\* ------------------------------------------------------------------------
C21_Compare ==
    (Completed /\ Opcode \in {CMP_IMMEDIATE, CMP_ABSOLUTE, CPX_IMMEDIATE, CPX_ABSOLUTE,
                               CPY_IMMEDIATE, CPY_ABSOLUTE}) =>
        \A r \in {IF Opcode \in {CMP_IMMEDIATE, CMP_ABSOLUTE} THEN call.cpu.register_accumulator
                  ELSE IF Opcode \in {CPX_IMMEDIATE, CPX_ABSOLUTE} THEN call.cpu.register_x
                  ELSE call.cpu.register_y} :
            /\ FlagIsSet(cpu.flags, CARRY) <=> (r >= Operand)
            /\ FlagIsSet(cpu.flags, ZERO) <=> (r = Operand)
            /\ FlagIsSet(cpu.flags, NEGATIVE) <=> (((r - Operand + U8) % U8) >= NEGATIVE_BIT)
            /\ cpu.register_accumulator = call.cpu.register_accumulator
            /\ cpu.register_x = call.cpu.register_x
            /\ cpu.register_y = call.cpu.register_y
            /\ cpu.stack_pointer = call.cpu.stack_pointer
            /\ FlagIsSet(cpu.flags, OVERFLOW) <=> FlagIsSet(call.cpu.flags, OVERFLOW)
            /\ call.left = call.memory

\* CPX #0 ran with X = 0xFF, Carry clear and Overflow set: Carry set, Zero
\* clear, Negative set (the difference is 0xFF), Overflow still set
C21_Witness ==
    /\ Completed /\ Opcode = CPX_IMMEDIATE /\ Operand = 0
    /\ call.cpu.register_x = U8 - 1
    /\ ~FlagIsSet(call.cpu.flags, CARRY) /\ FlagIsSet(call.cpu.flags, OVERFLOW)
    /\ FlagIsSet(cpu.flags, CARRY) /\ ~FlagIsSet(cpu.flags, ZERO)
    /\ FlagIsSet(cpu.flags, NEGATIVE) /\ FlagIsSet(cpu.flags, OVERFLOW)

\* ------------------------------------------------------------------------
\* C22: a conditional branch at p with the signed offset d, given a budget
\* that covers it: if the tested flag has the required state the program
\* counter becomes (p + 2 + d) mod 65536 at a cost of 3 cycles, or 4 when
\* the high byte of the new program counter differs from that of p + 2;
\* otherwise it becomes p + 2 at a cost of 2 cycles.  No flag, register or
\* memory byte changes.
\* ------------------------------------------------------------------------
C22_ConditionalBranch ==
    \A arm \in BranchArms :
        (Executed /\ Opcode = arm[1] /\ call.budget = MaxBudget) =>
            \A after \in {(call.cpu.program_counter + 2) % U16} :
            \A target \in {(after + U16
                              + (IF OperandByte >= NEGATIVE_BIT THEN OperandByte - U8
                                 ELSE OperandByte)) % U16} :
                /\ ~call.panicked
                /\ call.returned.hi = 0
                /\ IF FlagIsSet(call.cpu.flags, arm[2]) = arm[3]
                   THEN /\ cpu.program_counter = target
                        /\ Used = IF Hi(target) # Hi(after) THEN 4 ELSE 3
                   ELSE /\ cpu.program_counter = after
                        /\ Used = 2
                /\ [cpu EXCEPT !.program_counter = call.cpu.program_counter] = call.cpu
                /\ call.left = call.memory

\* ------------------------------------------------------------------------
\* C23: BRK, given a budget that covers it, makes three pushes (the two
\* bytes of the program counter, then the status flags), which advances the
\* stack pointer by 3 modulo 256, then loads the program counter from the
\* little-endian word at 0xFFFE/0xFFFF and sets Break, leaving the other
\* flags unchanged; it costs 7 cycles.
\* ------------------------------------------------------------------------
C23_Break ==
    (Executed /\ Opcode = BRK_IMPLIED /\ call.budget = MaxBudget) =>
        /\ ~call.panicked
        /\ MemoryRead(call.left, STACK_BASE + call.cpu.stack_pointer)
               = Lo(call.cpu.program_counter + 1)
        /\ MemoryRead(call.left, STACK_BASE + ((call.cpu.stack_pointer + 1) % U8))
               = Hi(call.cpu.program_counter + 1)
        /\ MemoryRead(call.left, STACK_BASE + ((call.cpu.stack_pointer + 2) % U8)) = call.cpu.flags
        /\ cpu.stack_pointer = (call.cpu.stack_pointer + 3) % U8
        /\ cpu.program_counter =
               MemoryRead(call.memory, U16 - 2) + U8 * MemoryRead(call.memory, U16 - 1)
        /\ FlagIsSet(cpu.flags, BREAK_COMMAND)
        /\ \A flag \in {CARRY, ZERO, IRQ_DISABLE, DECIMAL_MODE, OVERFLOW, NEGATIVE} :
               FlagIsSet(cpu.flags, flag) <=> FlagIsSet(call.cpu.flags, flag)
        /\ call.returned.hi = 0 /\ Used = 7

\* BRK ran at 0x30F0 with the stack pointer 0xFE and the flags Carry and
\* Decimal, in a build with overflow checks: 0xF1, 0x30 and the flags are at
\* 0x01FE, 0x01FF and 0x0100, the stack pointer is 0x01 and Break is set
C23_Witness ==
    /\ Completed /\ Opcode = BRK_IMPLIED /\ call.budget = MaxBudget /\ overflow_checks
    /\ call.cpu.program_counter = 12528
    /\ call.cpu.stack_pointer = U8 - 2
    /\ call.cpu.flags = CARRY + DECIMAL_MODE
    /\ MemoryRead(call.left, STACK_BASE + U8 - 2) = 241
    /\ MemoryRead(call.left, STACK_BASE + U8 - 1) = 48
    /\ MemoryRead(call.left, STACK_BASE) = CARRY + DECIMAL_MODE
    /\ cpu.stack_pointer = 1
    /\ cpu.flags = CARRY + DECIMAL_MODE + BREAK_COMMAND
    /\ cpu.program_counter = Hi(Org)

\* ------------------------------------------------------------------------
\* C24: RTI, given a budget that covers it, pops the status byte and loads
\* the flags from it, then pops the high byte and then the low byte of the
\* program counter, and clears Break, also when the popped status byte has
\* it set; the stack pointer ends three below its starting value and the
\* instruction costs 6 cycles.
\* ------------------------------------------------------------------------
C24_ReturnFromInterrupt ==
    (Executed /\ Opcode = RTI_IMPLIED /\ call.budget = MaxBudget) =>
        \A status \in {MemoryRead(call.memory,
                                   STACK_BASE + ((call.cpu.stack_pointer + U8 - 1) % U8))} :
        \A high \in {MemoryRead(call.memory,
                                 STACK_BASE + ((call.cpu.stack_pointer + U8 - 2) % U8))} :
        \A low \in {MemoryRead(call.memory,
                                STACK_BASE + ((call.cpu.stack_pointer + U8 - 3) % U8))} :
            /\ ~call.panicked
            /\ \A flag \in {CARRY, ZERO, IRQ_DISABLE, DECIMAL_MODE, OVERFLOW, NEGATIVE} :
                   FlagIsSet(cpu.flags, flag) <=> FlagIsSet(status, flag)
            /\ ~FlagIsSet(cpu.flags, BREAK_COMMAND)
            /\ cpu.program_counter = U8 * high + low
            /\ cpu.stack_pointer = (call.cpu.stack_pointer + U8 - 3) % U8
            /\ call.returned.hi = 0 /\ Used = 6

\* RTI ran after the BRK at 0x30F0 had pushed 0xF1, 0x30 and the status
\* 0xDF (every flag, Break too) from the stack pointer 0xFF on, in a build
\* with overflow checks: it pops the status at 0x0101, the high byte 0x30
\* at 0x0100 and the low byte 0xF1 at 0x01FF, so the program counter is
\* 0x30F1, every flag but Break is set and the stack pointer is 0xFF
C24_Witness ==
    /\ Completed /\ Opcode = RTI_IMPLIED /\ call.budget = MaxBudget /\ overflow_checks
    /\ call.cpu.stack_pointer = 2
    /\ MemoryRead(call.memory, STACK_BASE + 1) = FlagsAll
    /\ MemoryRead(call.memory, STACK_BASE) = 48
    /\ MemoryRead(call.memory, STACK_BASE + U8 - 1) = 241
    /\ call.bus[2] = [rw |-> "r", address |-> STACK_BASE + 1]
    /\ call.bus[3] = [rw |-> "r", address |-> STACK_BASE]
    /\ call.bus[4] = [rw |-> "r", address |-> STACK_BASE + U8 - 1]
    /\ cpu.flags = FlagsAll - BREAK_COMMAND
    /\ cpu.program_counter = 12529
    /\ cpu.stack_pointer = U8 - 1

\* ------------------------------------------------------------------------
\* C25: BRK at p followed by the RTI at the interrupt handler address, each
\* given a budget that covers it, for every p, stack pointer s and flags f:
\* the BRK is carried out, and the RTI leaves the stack pointer s, the
\* flags f with Break clear and the program counter p + 1 (in 16 bits).
\* ------------------------------------------------------------------------
C25_InterruptRoundTrip ==
    /\ (Executed /\ Opcode = BRK_IMPLIED /\ call.budget = MaxBudget) => ~call.panicked
    /\ (prev.op = "execute_single"
            /\ MemoryRead(prev.memory, prev.cpu.program_counter) = BRK_IMPLIED
            /\ prev.budget = MaxBudget
            /\ Executed /\ Opcode = RTI_IMPLIED /\ call.budget = MaxBudget) =>
                /\ ~call.panicked
                /\ cpu.stack_pointer = prev.cpu.stack_pointer
                /\ ~FlagIsSet(cpu.flags, BREAK_COMMAND)
                /\ \A flag \in {CARRY, ZERO, IRQ_DISABLE, DECIMAL_MODE, OVERFLOW, NEGATIVE} :
                       FlagIsSet(cpu.flags, flag) <=> FlagIsSet(prev.cpu.flags, flag)
                /\ cpu.program_counter = (prev.cpu.program_counter + 1) % U16

\* BRK at 0xFFF0 with the stack pointer 0xFF and all flags set, then the RTI
\* at the handler address: the stack pointer is 0xFF again, the program
\* counter 0xFFF1 and all flags but Break are set
C25_Witness ==
    /\ prev.op = "execute_single" /\ ~prev.panicked
    /\ MemoryRead(prev.memory, prev.cpu.program_counter) = BRK_IMPLIED
    /\ prev.cpu.program_counter = 65520
    /\ prev.cpu.stack_pointer = U8 - 1
    /\ prev.cpu.flags = FlagsAll
    /\ Completed /\ Opcode = RTI_IMPLIED /\ overflow_checks
    /\ call.cpu.program_counter = Hi(Org)
    /\ call.cpu.stack_pointer = 2
    /\ cpu.stack_pointer = U8 - 1
    /\ cpu.program_counter = 65521
    /\ cpu.flags = FlagsAll - BREAK_COMMAND

\* ------------------------------------------------------------------------
\* C26: PHA and PHP write the byte (A, the flags) at 0x0100 + SP and leave
\* the stack pointer at (SP + 1) mod 256, for 3 cycles; PLA and PLP read
\* the byte at 0x0100 + ((SP - 1) mod 256) and leave the stack pointer
\* there, for 4 cycles; PLA loads A and sets Zero and Negative from the
\* popped byte, PLP loads every flag from the popped byte.
\* ------------------------------------------------------------------------
C26_PushAndPull ==
    /\ (Executed /\ Opcode \in StackOps /\ call.budget = MaxBudget) => ~call.panicked
    /\ (Completed /\ Opcode \in {PHA_IMPLIED, PHP_IMPLIED}) =>
          /\ call.bus = <<[rw |-> "r", address |-> call.cpu.program_counter],
                          [rw |-> "w", address |-> STACK_BASE + call.cpu.stack_pointer]>>
          /\ MemoryRead(call.left, STACK_BASE + call.cpu.stack_pointer) =
                 (IF Opcode = PHA_IMPLIED THEN call.cpu.register_accumulator
                                          ELSE call.cpu.flags)
          /\ cpu.stack_pointer = (call.cpu.stack_pointer + 1) % U8
          /\ call.budget = MaxBudget => Used = 3
    /\ (Completed /\ Opcode \in {PLA_IMPLIED, PLP_IMPLIED}) =>
          \A sp \in {(call.cpu.stack_pointer + U8 - 1) % U8} :
          \A popped \in {MemoryRead(call.memory, STACK_BASE + sp)} :
              /\ call.bus = <<[rw |-> "r", address |-> call.cpu.program_counter],
                              [rw |-> "r", address |-> STACK_BASE + sp]>>
              /\ cpu.stack_pointer = sp
              /\ call.budget = MaxBudget => Used = 4
              /\ Opcode = PLA_IMPLIED =>
                     /\ cpu.register_accumulator = popped
                     /\ ZeroNegativeOf(cpu.flags, popped)
              /\ Opcode = PLP_IMPLIED =>
                     \A flag \in {CARRY, ZERO, IRQ_DISABLE, DECIMAL_MODE, BREAK_COMMAND,
                                    OVERFLOW, NEGATIVE} :
                         FlagIsSet(cpu.flags, flag) <=> FlagIsSet(popped, flag)

\* PLA ran with the stack pointer 0x00 and A = 0x7F, in a build with
\* overflow checks: it read 0x80 at 0x01FF, left the stack pointer 0xFF,
\* A = 0x80 and Negative set, and used 4 cycles
C26_Witness ==
    /\ Completed /\ Opcode = PLA_IMPLIED /\ call.budget = MaxBudget /\ overflow_checks
    /\ call.cpu.stack_pointer = 0
    /\ call.cpu.register_accumulator = NEGATIVE_BIT - 1
    /\ MemoryRead(call.memory, STACK_BASE + U8 - 1) = NEGATIVE_BIT
    /\ cpu.stack_pointer = U8 - 1
    /\ cpu.register_accumulator = NEGATIVE_BIT
    /\ FlagIsSet(cpu.flags, NEGATIVE) /\ ~FlagIsSet(cpu.flags, ZERO)
    /\ Used = 4

\* PLP popped 0xFF right after the PHA that pushed it: all flags are set;
\* the PHA wrote at 0x0140 and used 3 cycles
C26_WitnessPlp ==
    /\ Completed /\ Opcode = PLP_IMPLIED /\ call.budget = MaxBudget
    /\ prev.op = "execute_single" /\ ~prev.panicked /\ prev.budget = MaxBudget
    /\ MemoryRead(prev.memory, prev.cpu.program_counter) = PHA_IMPLIED
    /\ prev.cpu.stack_pointer = 64 /\ prev.cpu.register_accumulator = U8 - 1
    /\ prev.returned = U32Of(MaxBudget - 3)
    /\ call.cpu.flags = NEGATIVE
    /\ cpu.flags = FlagsAll
    /\ cpu.stack_pointer = 64

\* ------------------------------------------------------------------------
\* C27: the stack returns bytes in the reverse order of pushing.  After
\* 256 pushes of 256 different bytes, the j-th PLA returns the byte of the
\* (256 - j + 1)-th push and leaves the stack pointer as it was before that
\* push, for every starting stack pointer: so for every n the last n
\* pushes and the first n pops are n pushes followed by n pops.  PLA after
\* PHA restores A and PLP after PHP restores the flags, also when an
\* instruction in between has changed them.
\* ------------------------------------------------------------------------
C27_StackIsLifo ==
    /\ (Completed /\ Opcode = PLA_IMPLIED
            /\ MemoryRead(call.memory, Org + 3) = LDY_IMMEDIATE) =>
          \A j \in {call.cpu.program_counter - (PushRun + 3 * U8) + 1} :
              /\ j \in 1..U8
              /\ cpu.register_accumulator =
                     MemoryRead(call.memory, PushRun + 3 * (U8 - j) + 1)
              /\ cpu.stack_pointer = (MemoryRead(call.memory, Org + 1) + U8 - j) % U8
    /\ (Completed /\ Opcode \in {PLA_IMPLIED, PLP_IMPLIED}
            /\ prev.op = "execute_single"
            /\ prev.cpu.program_counter = call.cpu.program_counter - 2
            /\ MemoryRead(call.memory, call.cpu.program_counter - 2) = LDA_IMMEDIATE
            /\ MemoryRead(call.memory, call.cpu.program_counter - 3) =
                   (IF Opcode = PLA_IMPLIED THEN PHA_IMPLIED ELSE PHP_IMPLIED)) =>
          /\ Opcode = PLA_IMPLIED => cpu.register_accumulator = prev.cpu.register_accumulator
          /\ Opcode = PLP_IMPLIED => cpu.flags = prev.cpu.flags
          /\ cpu.stack_pointer = (prev.cpu.stack_pointer + U8 - 1) % U8

\* the last of the 256 PLA has run, from the starting stack pointer 0xFE:
\* it returned the byte of the first push (0x2A, read at 0x01FE) and the
\* stack pointer is 0xFE again
C27_Witness ==
    /\ Completed /\ Opcode = PLA_IMPLIED /\ overflow_checks
    /\ MemoryRead(call.memory, Org + 3) = LDY_IMMEDIATE
    /\ MemoryRead(call.memory, Org + 1) = U8 - 2
    /\ call.cpu.program_counter = PushRun + 3 * U8 + U8 - 1
    /\ MemoryRead(call.memory, PushRun + 1) = 42
    /\ call.cpu.register_accumulator = 79
    /\ cpu.register_accumulator = 42
    /\ cpu.stack_pointer = U8 - 2

\* PLP ran after PHP and an LDA #0x80 that set Negative and cleared Zero:
\* the flags are those before the PHP again
C27_WitnessFlags ==
    /\ Completed /\ Opcode = PLP_IMPLIED
    /\ prev.op = "execute_single"
    /\ prev.cpu.program_counter = call.cpu.program_counter - 2
    /\ MemoryRead(call.memory, call.cpu.program_counter - 2) = LDA_IMMEDIATE
    /\ MemoryRead(call.memory, call.cpu.program_counter - 3) = PHP_IMPLIED
    /\ prev.cpu.flags = NEGATIVE - 1 - 32
    /\ call.cpu.flags = NEGATIVE + CARRY + IRQ_DISABLE + DECIMAL_MODE + BREAK_COMMAND + OVERFLOW
    /\ cpu.flags = prev.cpu.flags

\* ------------------------------------------------------------------------
\* C28: the accesses a stack instruction makes to push or pop (the second
\* access of PHA, PHP, PLA, PLP; the second and third of RTS; the second to
\* fourth of BRK and RTI; the fourth and fifth of JSR), and every write of
\* these instructions, are at an address in 0x0100..0x01FF, for every
\* stack pointer.
\* ------------------------------------------------------------------------
C28_StackAccessesStayInStackPage ==
    (Executed /\ Opcode \in StackOps \cup {JSR_ABSOLUTE, RTS_IMPLIED, BRK_IMPLIED,
                                            RTI_IMPLIED}) =>
        \A i \in 1..Len(call.bus) :
            (\/ call.bus[i].rw = "w"
             \/ i \in (CASE Opcode \in StackOps -> {2}
                         [] Opcode = RTS_IMPLIED -> {2, 3}
                         [] Opcode = JSR_ABSOLUTE -> {4, 5}
                         [] OTHER -> {2, 3, 4})) =>
                /\ call.bus[i].address >= STACK_BASE
                /\ call.bus[i].address < STACK_BASE + U8

\* JSR ran with the stack pointer 0xFF: it wrote at 0x01FF and at 0x0100
\* and left the stack pointer 0x01
C28_Witness ==
    /\ Completed /\ Opcode = JSR_ABSOLUTE
    /\ call.cpu.stack_pointer = U8 - 1
    /\ Len(call.bus) = 5
    /\ call.bus[4] = [rw |-> "w", address |-> STACK_BASE + U8 - 1]
    /\ call.bus[5] = [rw |-> "w", address |-> STACK_BASE]
    /\ cpu.stack_pointer = 1

\* RTI ran with the stack pointer 0x01: it read at 0x0100, 0x01FF, 0x01FE
C28_WitnessRti ==
    /\ Completed /\ Opcode = RTI_IMPLIED
    /\ call.cpu.stack_pointer = 1
    /\ Len(call.bus) = 4
    /\ call.bus[2].address = STACK_BASE
    /\ call.bus[3].address = STACK_BASE + U8 - 1
    /\ call.bus[4].address = STACK_BASE + U8 - 2

\* ------------------------------------------------------------------------
\* C29: nested calls return in reverse order.  After NestDepth nested JSR
\* with no other use of the stack, the j-th RTS returns to the instruction
\* that follows the (NestDepth - j + 1)-th JSR and leaves the stack pointer
\* as it was before that JSR, for every starting stack pointer: so for
\* every k <= NestDepth the last k JSR and the first k RTS are k nested
\* calls and their returns.  The n-th JSR is at Org + 3 + 4 * (n - 1).
\* ------------------------------------------------------------------------
C29_NestedCallsReturnInReverseOrder ==
    /\ (Executed /\ Opcode \in {JSR_ABSOLUTE, RTS_IMPLIED} /\ call.budget = MaxBudget
            /\ steps <= 3 + 2 * NestDepth
            /\ MemoryRead(call.memory, Org + 3) = JSR_ABSOLUTE) => ~call.panicked
    /\ (Completed /\ Opcode = RTS_IMPLIED
            /\ MemoryRead(call.memory, Org + 3) = JSR_ABSOLUTE) =>
          \A j \in 1..NestDepth :
              (call.cpu.program_counter =
                  (IF j = 1 THEN Org + 3 + 4 * NestDepth
                            ELSE Org + 3 + 4 * (NestDepth - j + 1) + 3)) =>
                  /\ cpu.program_counter = Org + 3 + 4 * (NestDepth - j) + 3
                  /\ cpu.stack_pointer =
                         (MemoryRead(call.memory, Org + 1) + 2 * (NestDepth - j)) % U8

\* the last RTS of the run that started with the stack pointer 0x01 has
\* run, in a build with overflow checks: it returned to the byte after the
\* first JSR and the stack pointer is 0x01 again
C29_Witness ==
    /\ Completed /\ Opcode = RTS_IMPLIED /\ overflow_checks
    /\ MemoryRead(call.memory, Org + 3) = JSR_ABSOLUTE
    /\ MemoryRead(call.memory, Org + 1) = 1
    /\ steps = 3 + 2 * NestDepth
    /\ call.cpu.program_counter = Org + 3 + 4 + 3
    /\ call.cpu.stack_pointer = 3
    /\ cpu.program_counter = Org + 3 + 3
    /\ cpu.stack_pointer = 1

\* ------------------------------------------------------------------------
\* C30: an instruction that addresses the zero page indexed by X or by Y
\* accesses the address (operand + index) mod 256 and, after the two
\* fetches, no other: an address in 0x0000..0x00FF for every operand and
\* index.  A load through it (LDA zp,X; LDY zp,X; LDX zp,Y) loads the byte
\* at that address and costs 4 cycles.
\* ------------------------------------------------------------------------
C30_ZeroPageIndexed ==
    (Executed /\ Opcode \in ZeroPageXOps \cup ZeroPageYOps) =>
        \A ea \in {(OperandByte + (IF Opcode \in ZeroPageXOps THEN call.cpu.register_x
                                                               ELSE call.cpu.register_y)) % U8} :
            /\ ea < U8
            /\ \A i \in 3..Len(call.bus) : call.bus[i].address = ea
            /\ (call.budget = MaxBudget
                    /\ Opcode \in {LDA_ZERO_PAGE_X, LDY_ZERO_PAGE_X, LDX_ZERO_PAGE_Y}) =>
                  /\ ~call.panicked
                  /\ call.bus = <<[rw |-> "r", address |-> call.cpu.program_counter],
                                  [rw |-> "r", address |-> call.cpu.program_counter + 1],
                                  [rw |-> "r", address |-> ea]>>
                  /\ MemoryRead(call.memory, ea) =
                         (CASE Opcode = LDA_ZERO_PAGE_X -> cpu.register_accumulator
                            [] Opcode = LDY_ZERO_PAGE_X -> cpu.register_y
                            [] OTHER -> cpu.register_x)
                  /\ Used = 4

\* LDA 0xFF,X ran with X = 0xFF, in a build with overflow checks: it read
\* the byte 0xE0 at 0x00FE into A and used 4 cycles
C30_Witness ==
    /\ Completed /\ Opcode = LDA_ZERO_PAGE_X /\ call.budget = MaxBudget /\ overflow_checks
    /\ OperandByte = U8 - 1 /\ call.cpu.register_x = U8 - 1
    /\ call.bus[3] = [rw |-> "r", address |-> U8 - 2]
    /\ MemoryRead(call.memory, U8 - 2) = 224
    /\ cpu.register_accumulator = 224
    /\ Used = 4

\* STX 0x80,Y ran with X = Y = 0xFF: it wrote 0xFF at 0x007F
C30_WitnessStore ==
    /\ Completed /\ Opcode = STX_ZERO_PAGE_Y
    /\ OperandByte = NEGATIVE_BIT /\ call.cpu.register_y = U8 - 1
    /\ call.bus[3] = [rw |-> "w", address |-> NEGATIVE_BIT - 1]
    /\ MemoryRead(call.left, NEGATIVE_BIT - 1) = U8 - 1

\* ------------------------------------------------------------------------
\* C31: an instruction with (zp,X) addressing reads the low byte of the
\* pointer at z = (operand + X) mod 256 and the high byte at the next
\* zero-page address, both within 0x0000..0x00FF also when z = 0xFF, and
\* accesses the address they form.
\* ------------------------------------------------------------------------
C31_IndexedIndirectPointerInZeroPage ==
    (Completed /\ Opcode \in IndirectXOps) =>
        \A z \in {(OperandByte + call.cpu.register_x) % U8} :
            /\ Len(call.bus) = 5
            /\ call.bus[3] = [rw |-> "r", address |-> z]
            /\ call.bus[4].rw = "r"
            /\ call.bus[4].address < U8
            /\ call.bus[5].address = MemoryRead(call.memory, z)
                                      + U8 * MemoryRead(call.memory, call.bus[4].address)

\* ------------------------------------------------------------------------
\* C32: a read-class instruction with (zp),Y addressing, given a budget
\* that covers it, reads the pointer at the zero-page operand, accesses
\* pointer + Y, and costs 5 cycles when pointer and pointer + Y have the
\* same high byte and 6 cycles when they differ, for every pointer and Y.
\* ------------------------------------------------------------------------
C32_IndirectIndexedReadCost ==
    (Executed /\ Opcode \in ReadOpsIndirectY /\ call.budget = MaxBudget) =>
        /\ ~call.panicked
        /\ Len(call.bus) = 5
        /\ call.bus[3] = [rw |-> "r", address |-> OperandByte]
        /\ \A pointer \in {MemoryRead(call.memory, OperandByte)
                              + U8 * MemoryRead(call.memory, call.bus[4].address)} :
               /\ call.bus[5].address = (pointer + call.cpu.register_y) % U16
               /\ call.returned.hi = 0
               /\ Used = IF Hi(pointer) = Hi(pointer + call.cpu.register_y) THEN 5 ELSE 6

\* ------------------------------------------------------------------------
\* C33: STA absolute,X and STA absolute,Y cost 5 cycles, STA (zp),Y costs 6
\* and INC, DEC, ASL, LSR, ROL, ROR absolute,X cost 7, given a budget that
\* covers them, for every base address and index, whether or not the sum
\* crosses a page.
\* ------------------------------------------------------------------------
C33_IndexedWriteCost ==
    \A c \in IndexedWriteCost :
        (Executed /\ Opcode = c[1] /\ call.budget = MaxBudget) =>
            /\ ~call.panicked
            /\ call.returned.hi = 0
            /\ Used = c[2]

\* ------------------------------------------------------------------------
\* C34: INC and DEC add and subtract 1 modulo 256 to the byte at the
\* operand address, INX, INY, DEX and DEY to the register; Zero and Negative
\* follow the result and Carry, Overflow and every other flag, and every
\* other register, stay as they were.
\* ------------------------------------------------------------------------
C34_IncrementDecrement ==
    /\ (Completed /\ Opcode \in {INC_ABSOLUTE, DEC_ABSOLUTE, INC_ZERO_PAGE, DEC_ZERO_PAGE}) =>
          \A ea \in {IF Opcode \in {INC_ABSOLUTE, DEC_ABSOLUTE} THEN OperandWord
                                                                ELSE OperandByte} :
          \A result \in {(MemoryRead(call.memory, ea)
                             + (IF Opcode \in {INC_ABSOLUTE, INC_ZERO_PAGE} THEN 1 ELSE U8 - 1))
                            % U8} :
              /\ MemoryRead(call.left, ea) = result
              /\ ZeroNegativeOf(cpu.flags, result)
              /\ \A flag \in {CARRY, IRQ_DISABLE, DECIMAL_MODE, BREAK_COMMAND, OVERFLOW} :
                     FlagIsSet(cpu.flags, flag) <=> FlagIsSet(call.cpu.flags, flag)
              /\ [cpu EXCEPT !.flags = 0, !.program_counter = 0]
                    = [call.cpu EXCEPT !.flags = 0, !.program_counter = 0]
    /\ (Completed /\ Opcode \in {INX_IMPLIED, INY_IMPLIED, DEX_IMPLIED, DEY_IMPLIED}) =>
          \A old \in {IF Opcode \in {INX_IMPLIED, DEX_IMPLIED} THEN call.cpu.register_x
                                                                ELSE call.cpu.register_y} :
          \A result \in {(old + (IF Opcode \in {INX_IMPLIED, INY_IMPLIED} THEN 1 ELSE U8 - 1))
                            % U8} :
              /\ cpu = [[call.cpu EXCEPT !.flags = cpu.flags,
                                          !.program_counter = cpu.program_counter]
                            EXCEPT !.register_x = IF Opcode \in {INX_IMPLIED, DEX_IMPLIED}
                                                  THEN result ELSE @,
                                   !.register_y = IF Opcode \in {INY_IMPLIED, DEY_IMPLIED}
                                                  THEN result ELSE @]
              /\ ZeroNegativeOf(cpu.flags, result)
              /\ \A flag \in {CARRY, IRQ_DISABLE, DECIMAL_MODE, BREAK_COMMAND, OVERFLOW} :
                     FlagIsSet(cpu.flags, flag) <=> FlagIsSet(call.cpu.flags, flag)
              /\ call.left = call.memory

\* INC of the byte 0xFF ran with Carry and Decimal set and Zero clear: the
\* byte is 0x00, Zero is set, Carry and Decimal are still set and Overflow
\* and Negative clear
C34_Witness ==
    /\ Completed /\ Opcode = INC_ABSOLUTE /\ overflow_checks
    /\ MemoryRead(call.memory, OperandWord) = U8 - 1
    /\ call.cpu.flags = CARRY + DECIMAL_MODE
    /\ MemoryRead(call.left, OperandWord) = 0
    /\ cpu.flags = CARRY + DECIMAL_MODE + ZERO

\* DEX ran with X = 0x00 and no flag set: X is 0xFF and only Negative is set
C34_WitnessRegister ==
    /\ Completed /\ Opcode = DEX_IMPLIED
    /\ call.cpu.register_x = 0 /\ call.cpu.flags = 0
    /\ cpu.register_x = U8 - 1 /\ cpu.flags = NEGATIVE

\* ------------------------------------------------------------------------
\* C35: for every byte v and carry-in c, on the accumulator and on memory:
\* ASL gives (v << 1) mod 256 and ROL that with c in bit 0, both with
\* Carry = old bit 7; LSR gives v >> 1 and ROR that with c in bit 7, both
\* with Carry = old bit 0; Zero and Negative follow the result, and
\* Negative is clear after LSR.
\* ------------------------------------------------------------------------
C35_ShiftAndRotate ==
    \A form \in {<<ASL_ACCUMULATOR, "l", 0, "A">>, <<ASL_ABSOLUTE, "l", 0, "M">>,
                   <<ASL_ZERO_PAGE, "l", 0, "Z">>,
                   <<ROL_ACCUMULATOR, "l", 1, "A">>, <<ROL_ABSOLUTE, "l", 1, "M">>,
                   <<ROL_ZERO_PAGE, "l", 1, "Z">>,
                   <<LSR_ACCUMULATOR, "r", 0, "A">>, <<LSR_ABSOLUTE, "r", 0, "M">>,
                   <<LSR_ZERO_PAGE, "r", 0, "Z">>,
                   <<ROR_ACCUMULATOR, "r", 1, "A">>, <<ROR_ABSOLUTE, "r", 1, "M">>,
                   <<ROR_ZERO_PAGE, "r", 1, "Z">>} :
        (Completed /\ Opcode = form[1]) =>
            \A ea \in {IF form[4] = "M" THEN OperandWord ELSE OperandByte} :
            \A v \in {IF form[4] = "A" THEN call.cpu.register_accumulator
                                          ELSE MemoryRead(call.memory, ea)} :
            \A c \in {IF form[3] = 1 /\ FlagIsSet(call.cpu.flags, CARRY) THEN 1 ELSE 0} :
            \A result \in {IF form[2] = "l" THEN ((2 * v) % U8) + c
                                               ELSE (v \div 2) + NEGATIVE_BIT * c} :
                /\ result = (IF form[4] = "A" THEN cpu.register_accumulator
                                               ELSE MemoryRead(call.left, ea))
                /\ FlagIsSet(cpu.flags, CARRY) <=>
                       (IF form[2] = "l" THEN v >= NEGATIVE_BIT ELSE v % 2 = 1)
                /\ ZeroNegativeOf(cpu.flags, result)
                /\ form[1] \in {LSR_ACCUMULATOR, LSR_ABSOLUTE, LSR_ZERO_PAGE} =>
                       ~FlagIsSet(cpu.flags, NEGATIVE)

\* ROR of the byte 0x01 in memory ran with Carry set: the byte is 0x80,
\* Carry and Negative are set and Zero is clear
C35_Witness ==
    /\ Completed /\ Opcode = ROR_ABSOLUTE /\ overflow_checks
    /\ MemoryRead(call.memory, OperandWord) = 1
    /\ FlagIsSet(call.cpu.flags, CARRY)
    /\ MemoryRead(call.left, OperandWord) = NEGATIVE_BIT
    /\ FlagIsSet(cpu.flags, CARRY) /\ FlagIsSet(cpu.flags, NEGATIVE)
    /\ ~FlagIsSet(cpu.flags, ZERO)

\* ROL of the accumulator 0x80 ran with Carry clear: A is 0x00, Carry and
\* Zero are set
C35_WitnessAccumulator ==
    /\ Completed /\ Opcode = ROL_ACCUMULATOR
    /\ call.cpu.register_accumulator = NEGATIVE_BIT
    /\ ~FlagIsSet(call.cpu.flags, CARRY)
    /\ cpu.register_accumulator = 0
    /\ FlagIsSet(cpu.flags, CARRY) /\ FlagIsSet(cpu.flags, ZERO)

\* ------------------------------------------------------------------------
\* C37: TXS copies X into the stack pointer and leaves Zero, Negative and
\* every other flag as they were, for every value of X.
\* ------------------------------------------------------------------------
C37_TxsLeavesFlags ==
    (Completed /\ Opcode = TXS_IMPLIED) =>
        /\ cpu.stack_pointer = call.cpu.register_x
        /\ cpu.flags = call.cpu.flags

\* ------------------------------------------------------------------------
\* C36: a call that runs an implemented instruction other than a jump, a
\* call, a return, a taken branch, BRK or RTI leaves the program counter at
\* its value before plus the length of the instruction (1, 2 or 3 bytes),
\* whatever the registers, the flags and the operand bytes.
\* ------------------------------------------------------------------------
C36_ProgramCounterAdvancesByLength ==
    (Completed /\ Opcode \in Implemented
        /\ Opcode \notin {JMP_ABSOLUTE, JMP_INDIRECT, JSR_ABSOLUTE, RTS_IMPLIED, BRK_IMPLIED,
                           RTI_IMPLIED}
        /\ \A arm \in BranchArms :
               Opcode = arm[1] => FlagIsSet(call.cpu.flags, arm[2]) # arm[3]) =>
            cpu.program_counter = call.cpu.program_counter + InstructionLength(Opcode)

\* LDA 0x30F0,X ran with X = 0x80: the program counter is three higher
C36_Witness ==
    /\ Completed /\ Opcode = LDA_ABSOLUTE_X /\ overflow_checks
    /\ OperandWord = 12528 /\ call.cpu.register_x = NEGATIVE_BIT
    /\ cpu.program_counter = call.cpu.program_counter + 3

\* BNE with the offset 0x40 ran with Zero set (not taken): the program
\* counter is two higher
C36_WitnessBranch ==
    /\ Completed /\ Opcode = BNE_RELATIVE /\ OperandByte = 64
    /\ FlagIsSet(call.cpu.flags, ZERO)
    /\ cpu.program_counter = call.cpu.program_counter + 2

\* ------------------------------------------------------------------------
\* C38: only the stores, INC, DEC and the shifts and rotates on memory,
\* PHA, PHP, JSR and BRK write to the memory: a call that runs any other
\* byte, implemented or not, makes no write and leaves the memory as it
\* was.  A store makes one write, of the register at the operand address,
\* and changes no register and no flag.
\* ------------------------------------------------------------------------
C38_MemoryWrittenOnlyByWriters ==
    Executed =>
        \A m \in {execute_single(call.cpu, call.memory, call.budget, overflow_checks)} :
            /\ Opcode \notin MemoryWriters =>
                  /\ \A i \in 1..Len(call.bus) : call.bus[i].rw = "r"
                  /\ m.memory = call.memory
            /\ (~call.panicked
                    /\ Opcode \in {STA_ZERO_PAGE, STA_ZERO_PAGE_X, STA_ABSOLUTE, STA_ABSOLUTE_X,
                                    STA_ABSOLUTE_Y, STA_INDIRECT_X, STA_INDIRECT_Y,
                                    STX_ZERO_PAGE, STX_ZERO_PAGE_Y, STX_ABSOLUTE,
                                    STY_ZERO_PAGE, STY_ZERO_PAGE_X, STY_ABSOLUTE}) =>
                  /\ Cardinality({i \in 1..Len(call.bus) : call.bus[i].rw = "w"}) = 1
                  /\ call.bus[Len(call.bus)].rw = "w"
                  /\ m.memory =
                         MemoryWrite(call.memory, call.bus[Len(call.bus)].address,
                                     CASE Opcode \in {STX_ZERO_PAGE, STX_ZERO_PAGE_Y, STX_ABSOLUTE}
                                            -> call.cpu.register_x
                                       [] Opcode \in {STY_ZERO_PAGE, STY_ZERO_PAGE_X, STY_ABSOLUTE}
                                            -> call.cpu.register_y
                                       [] OTHER -> call.cpu.register_accumulator)
                  /\ m.cpu = [call.cpu EXCEPT
                                  !.program_counter = @ + InstructionLength(Opcode)]

\* CMP 0x0240 ran: three fetches and a read, no write
C38_Witness ==
    /\ Completed /\ Opcode = CMP_ABSOLUTE /\ OperandWord = 576
    /\ Len(call.bus) = 4
    /\ call.bus[4] = [rw |-> "r", address |-> 576]
    /\ call.left = call.memory

\* STA 0x30F0,X ran with A = X = 0x80: it wrote 0x80 at 0x3170 and the
\* flags and registers are as before
C38_WitnessStore ==
    /\ Completed /\ Opcode = STA_ABSOLUTE_X /\ OperandWord = 12528
    /\ call.cpu.register_accumulator = NEGATIVE_BIT /\ call.cpu.register_x = NEGATIVE_BIT
    /\ call.bus[4] = [rw |-> "w", address |-> 12528 + NEGATIVE_BIT]
    /\ MemoryRead(call.memory, 12528 + NEGATIVE_BIT) = 0
    /\ MemoryRead(call.left, 12528 + NEGATIVE_BIT) = NEGATIVE_BIT
    /\ cpu.flags = call.cpu.flags

\* ------------------------------------------------------------------------
\* C39: for each of the seven status flags and every state of the flags,
\* flag_as_bit returns 1 when the flag is set and 0 when it is clear.
\* ------------------------------------------------------------------------
C39_FlagAsBit ==
    \A flag \in {CARRY, ZERO, IRQ_DISABLE, DECIMAL_MODE, BREAK_COMMAND, OVERFLOW, NEGATIVE} :
        flag_as_bit(cpu, flag) = IF FlagIsSet(cpu.flags, flag) THEN 1 ELSE 0

====
